---- MODULE Spec2Model ----
(***************************************************************************)
(* linux-recognition: the top-level run (context construction, batches of  *)
(* concurrent fingerprint tasks, batch flush, teardown) and the building   *)
(* blocks it relies on.  Each block has its own specification over the     *)
(* same variables; the variables of the other blocks stay idle.            *)
(*                                                                         *)
(*   Spec       recognition.py / context.py / software.py : the run        *)
(*   SpecFetch  webtools/response.py : one fetch of a Response             *)
(*   SpecLock   reposcan, db/postgresql/udd.py : the requests of the       *)
(*              concurrent tasks to GitHub, GitLab and UDD and their locks *)
(*   SpecSem    synchronization.py, webtools/response.py, software.py :    *)
(*              the jobs the tasks offload to threads                      *)
(*   SpecOrch   software.py : the decision tree of one fingerprint         *)
(*   SpecNorm   normalization.py : the version of a fingerprint, normalized *)
(*              twice                                                      *)
(*   SpecCpe    software.py : the choice of the CPE candidate              *)
(*   SpecTags   reposcan/projects_base.py : the tag search, page by page,  *)
(*              and the tie-break between partial matches                  *)
(*   SpecVer    reposcan/projects_base.py : the version patterns and their *)
(*              search in a release name                                   *)
(*   SpecDate   reposcan/dateparse.py : parse_date                         *)
(*   SpecDateTags  reposcan/projects_base.py : the tags of a date version  *)
(*   SpecPkg    reposcan/packages.py : the lookups of a package adapter    *)
(*   SpecBest   reposcan/projects_base.py : _get_best_match over tails     *)
(*   SpecLog    reposcan/projects_base.py : the date of a changelog entry  *)
(*   SpecSync   udd.py, projects.py, synchronization.py : locks and the    *)
(*              semaphore together, with fair tasks                        *)
(*   SpecDedup  normalization.py : normalize_fingerprints and the order of *)
(*              its input                                                  *)
(***************************************************************************)
EXTENDS Integers, Sequences, FiniteSets, TLC

(***************************************************************************)
(* Bounds                                                                  *)
(***************************************************************************)
\* number of normalized, not yet recognized fingerprints handed to the run
NumFingerprints == 4
\* recognize(raw_fingerprints, segment_length=20): the batch size, scaled down
segment_length == 2
\* meta refresh pages a TextResponse follows before the page refreshes no more
MaxMetaRefresh == 1
\* concurrent fingerprint tasks that talk to the platforms
NumTasks == 2
\* pages of tags a project has at most
MaxPages == 2
\* concurrent fingerprint tasks that offload jobs to threads
NumOffloaders == 3
\* typestore/datatypes.py:333 : Semaphore(50), scaled down
semaphore_value == 2
\* package classes of a distribution (package_tools.classes) at most
MaxClasses == 2

\* longest version string normalized
MaxVersionLen == 7
\* most candidates get_cpe_entities returns
MaxRecords == 2
\* most tags a project has
MaxTags == 4
\* reposcan/projects_base.py:370 : per_page 100, scaled down
per_page == 3
\* longest release name the patterns are tried on
MaxNameLen == 5
\* most reference strings given to parse_date
MaxReferences == 1
\* most tags of a page matched against a date version
MaxDateTags == 3
\* most partial matches handed to _get_best_match
MaxMatches == 3
\* most lines of a changelog behind the line of the matched version
MaxLines == 3
\* fingerprint tasks that use the locks and the semaphore concurrently
NumSyncTasks == 2
\* typestore/datatypes.py:333 : Semaphore(50), scaled down below the tasks
SyncSlots == 1
\* most raw fingerprints handed to normalize_fingerprints
MaxRaw == 2

(***************************************************************************)
(* Values                                                                  *)
(***************************************************************************)
None == "None"

Fingerprints == 1..NumFingerprints

\* context.py:92-111 : the three core databases, then the UDD database
Databases == <<"recognized", "repology", "packages", "udd">>

\* webtools/session.py:38 : session_names
session_names == <<"common", "github", "gitlab">>
SessionNames == {session_names[i] : i \in 1..Len(session_names)}

\* typestore/errors.py : the subclasses of LinuxRecognitionError
LinuxRecognitionErrors ==
    {"LinuxRecognitionError", "ResponseError", "DatabaseError", "SQLTemplateError",
     "LLMError", "DataDependencyError", "ContextPreparationError",
     "ProjectNotInitializedError"}

VARIABLES
    \* ---- the run (recognition.py, context.py, software.py) ----
    pc,                 \* position of recognize()
    create_licenses_vectorstore, \* argument of prepare_context
    nextDb,             \* index into Databases of the pool _init_db_pools opens next
    poolOpen,           \* database pools created and not closed
    sessionOpen,        \* aiohttp sessions created and not closed
    segment,            \* number of the batch being processed (0: none yet)
    task,               \* state of the task of each fingerprint
    software,           \* per fingerprint: self.software is not None
    error,              \* per fingerprint: exception that ended _recognize(), or None
    outcome,            \* per fingerprint: value _recognize() gave to gather
    flushArgs,          \* per batch: fingerprints handed to update_recognized_table
    flushResult,        \* per batch: how its flush ended, or None
    persisted,          \* fingerprints whose record reached the recognized table
    pending,            \* exception propagating through managed_context, or None
    raised,             \* exception recognize() ended with, or None
    raisedIn,           \* the call that exception came out of, or None
    closeFailed,        \* sessions and pools whose close() raised
    project_initialized, \* what is_initialized() answers: the flag file exists
    normalized,         \* normalize_fingerprints has been called
    \* ---- one fetch (webtools/response.py) ----
    fetch_pc,           \* position of Response.fetch()
    response_class,     \* JsonResponse, TextResponse or BinaryResponse
    treat_http_client_error_as_warning,  \* argument of Response
    no_meta_refresh,    \* argument of TextResponse
    got_status,         \* status of the response the session gave (0: no response)
    fetch_exc,          \* class of the exception raised inside the try, or None
    exc_status,         \* its status attribute (0: it has none)
    status_code,        \* self._status_code (0: None)
    content,            \* self._content
    logged,             \* level of the log record of the failure, or None
    fetch_raised,       \* class of the exception fetch() ended with, or None
    meta_refreshes,     \* meta refresh pages followed so far
    \* ---- requests to the platforms (reposcan, db/postgresql/udd.py) ----
    lpc,                \* per task: the call it is in
    mode,               \* per task: platform of its project (GitHub, GitLab) or None
    req,                \* per task: platform of its request in flight, or None
    page,               \* per task: page_number of _fetch_tag_with_version
    lockOwner,          \* per lock: the task holding it (0: free)
    stuck,              \* tasks whose request in flight never returns
    since_stall,        \* per task: it took a step while another's request was stuck
    \* ---- offloaded jobs (synchronization.py) ----
    spc,                \* per task: the call it is in
    semaphore,          \* free slots of synchronization.semaphore
    own_semaphore,      \* per task: free slots of the Semaphore() of its fetch_html_text
    \* ---- the decision tree of one fingerprint (software.py) ----
    opc,                \* the call _recognize() is in
    library,            \* the library pattern raw_software matches, or None
    classes_left,       \* package classes of the distribution not tried yet
    package,            \* what the package lookup gave: None, or the kind of its homepage
    has_software,       \* self.software is not None
    fetch_method_used,  \* self._fetch_method_used
    failed_step,        \* the last lookup that gave no data, or None
    failed_kind,        \* why: "transport", "persistence", "unconfirmed", "no data"
    ended_in,           \* the step _recognize() returned or raised in, or None
    exception,          \* the exception that left _recognize(), or None
    returned,           \* what recognize() returned: "pending", None or "record"
    \* ---- normalization of a version (normalization.py) ----
    npc,                \* "raw", then "once" and "twice" normalized
    raw_version,        \* fingerprint['version']
    version,            \* self._version of the last FingerprintNormalizer
    version_once,       \* the version of normalize(f), kept when it is normalized again
    \* ---- CPE identity (software.py) ----
    cpc,                \* "records": before _establish_cpe_identity, "done": after it
    publisher_names,    \* self.publisher.name and its alternative names
    resolved_version,   \* self.version
    records,            \* the candidates: (cpe_publisher, cpe_version) each
    matched,            \* index in records of the candidate taken, 0: none
    cpe_string,         \* the cpe_publisher self.cpe_string is built of, or None
    \* ---- the tag search of a Git project (reposcan/projects_base.py) ----
    tpc,                \* "page": about to ask for page page_number, "done": returned
    tags,               \* the tags of the project, in the order the platform lists them
    page_number,        \* page_number of _fetch_tag_with_version
    tag_with_version,   \* index in tags of the tag returned, 0: None
    requests,           \* the requests for a page of tags made so far
    tags_lock,          \* self._lock is held by the tag search
    \* ---- the version patterns (reposcan/projects_base.py) ----
    vpc,                \* "version": before _get_version_info, "pattern", "searched"
    version_name,       \* self._fingerprint.version, a version without suffix
    release_name,       \* the name of a release or tag the patterns are tried on
    significant,        \* the parts of the version the patterns are built of
    general_match,      \* info.pattern.general.search(release_name) is not None
    exact_match,        \* info.pattern.exact.search(release_name) is not None
    \* ---- the date parser (reposcan/dateparse.py) ----
    dpc,                \* "text": before parse_date, "done": after it
    date_like,          \* what extract_date_like finds in the text
    reference_collection, \* per reference string, what extract_date_like finds in it
    date,               \* the Date returned as <<year, month, day>>, <<>>: None
    date_exception,     \* the exception parse_date raised, or None
    \* ---- tags of a version that is a date (reposcan/projects_base.py) ----
    gpc,                \* "tags": before _match_date_tag_with_version, "done": after it
    date_in_version,    \* version_info.date_in_version as <<year, month, day>>
    version_suffix,     \* version_info.suffix, <<>>: None (not in development)
    date_tags,          \* the tags of the page
    date_tag,           \* index in date_tags of the tag returned, 0: None
    \* ---- package adapters (reposcan/packages.py) ----
    kpc,                \* position in initialize() of the adapter
    adapter,            \* the class of the package
    fetch_flags,        \* DebianPackage: <<fetch_licenses, fetch_description>>
    universal_attempt,  \* "none", "started", "finished": UniversalPackage(...).initialize()
    package_data,       \* [name, homepage, description, license, package_url] of the adapter
    distro_lookups,     \* the lookups of the distro's own sources started so far
    \* ---- tie-break among partial matches (reposcan/projects_base.py) ----
    bpc,                \* "items": before _get_best_match, "done": after it
    matching_items,     \* the tails of the partial matches, in list order
    best_match,         \* index in matching_items of the item returned, 0: none
    best_match_raised,  \* the exception _get_best_match ended with, None: returned
    \* ---- release date of a changelog (reposcan/projects_base.py) ----
    hpc,                \* "matched": before the date of the matched line is read, "done"
    following_lines,    \* per line after the matched one: the year it holds, 0 without one
    no_year_date,       \* what parse_date(..., no_year=True) reads: <<month, day>>
    iso_date,           \* Release.date as <<year, month, day>>, <<>> when ''
    changelog_raised,   \* the exception _fetch_from_changelog ended with, None: returned
    \* ---- locks and semaphore together (udd.py, projects.py, synchronization.py) ----
    section,            \* per task: the function the task is in
    phase,              \* per task: "lock", "request", "slot", "thread" or "start"
    project_platform,   \* per task: GitHub or GitLab, the platform of its project
    tags_page,          \* per task: page_number of _fetch_tag_with_version
    lock_holder,        \* per lock: the task inside its `async with`, 0 when free
    free_slots,         \* the value of the semaphore
    \* ---- normalization.py:95-99 : normalize_fingerprints of a list and of a
    \* ---- permutation of it
    upc,                \* "raw": before normalize_fingerprints, "done": after it
    raw_versions,       \* the versions of the raw fingerprints, one software and publisher
    permuted_versions,  \* the same raw fingerprints in another order
    unique,             \* set(...) of the normalized fingerprints of raw_versions
    unique_permuted     \* set(...) of the normalized fingerprints of permuted_versions

runVars == <<pc, create_licenses_vectorstore, nextDb, poolOpen, sessionOpen, segment,
             task, software, error, outcome, flushArgs, flushResult, persisted,
             pending, raised, raisedIn, closeFailed, project_initialized, normalized>>

fetchVars == <<fetch_pc, response_class, treat_http_client_error_as_warning,
               no_meta_refresh, got_status, fetch_exc, exc_status, status_code, content, logged,
               fetch_raised, meta_refreshes>>

lockVars == <<lpc, mode, req, page, lockOwner, stuck, since_stall>>

semVars == <<spc, semaphore, own_semaphore>>

orchVars == <<opc, library, classes_left, package, has_software, fetch_method_used,
              failed_step, failed_kind, ended_in, exception, returned>>

normVars == <<npc, raw_version, version, version_once>>

cpeVars == <<cpc, publisher_names, resolved_version, records, matched, cpe_string>>

tagsVars == <<tpc, tags, page_number, tag_with_version, requests, tags_lock>>

verVars == <<vpc, version_name, release_name, significant, general_match, exact_match>>

dateVars == <<dpc, date_like, reference_collection, date, date_exception>>

dateTagsVars == <<gpc, date_in_version, version_suffix, date_tags, date_tag>>

pkgVars == <<kpc, adapter, fetch_flags, universal_attempt, package_data, distro_lookups>>

bestVars == <<bpc, matching_items, best_match, best_match_raised>>

logVars == <<hpc, following_lines, no_year_date, iso_date, changelog_raised>>

syncVars == <<section, phase, project_platform, tags_page, lock_holder, free_slots>>

dedupVars == <<upc, raw_versions, permuted_versions, unique, unique_permuted>>

vars == <<runVars, fetchVars, lockVars, semVars, orchVars, normVars, cpeVars, tagsVars, verVars, dateVars, dateTagsVars, pkgVars, bestVars, logVars, syncVars, dedupVars>>

\* the variables of the other blocks, which the actions of a block leave alone
notRun == <<fetchVars, lockVars, semVars, orchVars, normVars, cpeVars, tagsVars, verVars, dateVars, dateTagsVars, pkgVars, bestVars, logVars, syncVars, dedupVars>>
notFetch == <<runVars, lockVars, semVars, orchVars, normVars, cpeVars, tagsVars, verVars, dateVars, dateTagsVars, pkgVars, bestVars, logVars, syncVars, dedupVars>>
notLock == <<runVars, fetchVars, semVars, orchVars, normVars, cpeVars, tagsVars, verVars, dateVars, dateTagsVars, pkgVars, bestVars, logVars, syncVars, dedupVars>>
notSem == <<runVars, fetchVars, lockVars, orchVars, normVars, cpeVars, tagsVars, verVars, dateVars, dateTagsVars, pkgVars, bestVars, logVars, syncVars, dedupVars>>
notOrch == <<runVars, fetchVars, lockVars, semVars, normVars, cpeVars, tagsVars, verVars, dateVars, dateTagsVars, pkgVars, bestVars, logVars, syncVars, dedupVars>>
notNorm == <<runVars, fetchVars, lockVars, semVars, orchVars, cpeVars, tagsVars, verVars, dateVars, dateTagsVars, pkgVars, bestVars, logVars, syncVars, dedupVars>>
notCpe == <<runVars, fetchVars, lockVars, semVars, orchVars, normVars, tagsVars, verVars, dateVars, dateTagsVars, pkgVars, bestVars, logVars, syncVars, dedupVars>>
notTags == <<runVars, fetchVars, lockVars, semVars, orchVars, normVars, cpeVars, verVars, dateVars, dateTagsVars, pkgVars, bestVars, logVars, syncVars, dedupVars>>
notVer == <<runVars, fetchVars, lockVars, semVars, orchVars, normVars, cpeVars, tagsVars, dateVars, dateTagsVars, pkgVars, bestVars, logVars, syncVars, dedupVars>>
notDate == <<runVars, fetchVars, lockVars, semVars, orchVars, normVars, cpeVars, tagsVars, verVars, dateTagsVars, pkgVars, bestVars, logVars, syncVars, dedupVars>>
notDateTags == <<runVars, fetchVars, lockVars, semVars, orchVars, normVars, cpeVars, tagsVars, verVars, dateVars, pkgVars, bestVars, logVars, syncVars, dedupVars>>
notPkg == <<runVars, fetchVars, lockVars, semVars, orchVars, normVars, cpeVars, tagsVars, verVars, dateVars, dateTagsVars, bestVars, logVars, syncVars, dedupVars>>
notBest == <<runVars, fetchVars, lockVars, semVars, orchVars, normVars, cpeVars, tagsVars, verVars, dateVars, dateTagsVars, pkgVars, logVars, syncVars, dedupVars>>
notLog == <<runVars, fetchVars, lockVars, semVars, orchVars, normVars, cpeVars, tagsVars, verVars, dateVars, dateTagsVars, pkgVars, bestVars, syncVars, dedupVars>>
notSync == <<runVars, fetchVars, lockVars, semVars, orchVars, normVars, cpeVars, tagsVars, verVars, dateVars, dateTagsVars, pkgVars, bestVars, logVars, dedupVars>>
notDedup == <<runVars, fetchVars, lockVars, semVars, orchVars, normVars, cpeVars, tagsVars, verVars, dateVars, dateTagsVars, pkgVars, bestVars, logVars, syncVars>>

(***************************************************************************)
(* recognition.py:60 : batched(fingerprints, segment_length)               *)
(***************************************************************************)
NumSegments == (NumFingerprints + segment_length - 1) \div segment_length
Segments == 1..NumSegments
SegmentIndex(f) == ((f - 1) \div segment_length) + 1
batched(k) == {f \in Fingerprints : SegmentIndex(f) = k}

(***************************************************************************)
(* software.py:69-80 : SoftwareRecognizer.recognize, given whether         *)
(* self.software was set and the exception _recognize() ended with;        *)
(* recognition.py:94-108 turns a recognizer into a RecognitionResult.      *)
(***************************************************************************)
recognizeKeepPartial(softwareSet, exc) ==
    IF softwareSet THEN "record" ELSE None

recognize(softwareSet, exc) ==
    IF exc \in LinuxRecognitionErrors THEN None
    ELSE IF exc # None THEN None
    ELSE IF softwareSet THEN "record" ELSE None

(***************************************************************************)
(* recognition.py:76 : gather returns once every task of the batch has     *)
(* returned; it raises as soon as one task has raised.                     *)
(***************************************************************************)
gatherReturnsFirstCompleted(k) == \E f \in batched(k) : task[f] = "returned"

gatherReturns(k) == \A f \in batched(k) : task[f] = "returned"

gatherRaises(k) == \E f \in batched(k) : task[f] = "raised"

\* recognition.py:77 : results = [item for item in segment_outcome if item is not None]
results(k) == {f \in batched(k) : outcome[f] # None}

(***************************************************************************)
(* context.py:116-119 : _close_pools                                       *)
(***************************************************************************)
close_pools(pools) == poolOpen \ pools

\* the run before anything of it has happened
RunFields ==
    /\ nextDb = 1
    /\ poolOpen = {}
    /\ sessionOpen = {}
    /\ segment = 0
    /\ task = [f \in Fingerprints |-> "none"]
    /\ software = [f \in Fingerprints |-> FALSE]
    /\ error = [f \in Fingerprints |-> None]
    /\ outcome = [f \in Fingerprints |-> None]
    /\ flushArgs = [k \in Segments |-> {}]
    /\ flushResult = [k \in Segments |-> None]
    /\ persisted = {}
    /\ pending = None
    /\ raised = None
    /\ raisedIn = None
    /\ closeFailed = {}
    /\ normalized = FALSE

InitRun ==
    /\ pc = "is_initialized"
    /\ create_licenses_vectorstore \in BOOLEAN
    /\ project_initialized \in BOOLEAN
    /\ RunFields

IdleRun ==
    /\ pc = "idle"
    /\ create_licenses_vectorstore = FALSE
    /\ project_initialized = FALSE
    /\ RunFields

\* the run ends: recognize() returns, or raises exc out of the call `call`
End(call, exc) ==
    /\ pc' = "ended"
    /\ raised' = exc
    /\ raisedIn' = IF exc = None THEN None ELSE call

\* recognition.py:27-40 without the raise of lines 34-39: the flag is read
\* and the run goes on to prepare_context whatever it says
is_initializedFlagIgnored ==
    /\ pc = "is_initialized"
    /\ \/ /\ pc' = "init_pools"
          /\ UNCHANGED <<raised, raisedIn>>
       \/ End("is_initialized", "OSError")
    /\ UNCHANGED <<closeFailed, project_initialized, normalized>>
    /\ UNCHANGED notRun
    /\ UNCHANGED <<create_licenses_vectorstore, nextDb, poolOpen, sessionOpen, segment,
                   task, software, error, outcome, flushArgs, flushResult, persisted,
                   pending>>

(***************************************************************************)
(* recognition.py:27-40 : the initialization flag.  Reading it may fail    *)
(* with OSError, which is logged and re-raised; a flag that is not set     *)
(* raises ProjectNotInitializedError before prepare_context is called.     *)
(***************************************************************************)
is_initialized ==
    /\ pc = "is_initialized"
    /\ \/ /\ project_initialized
          /\ pc' = "init_pools"
          /\ UNCHANGED <<raised, raisedIn>>
       \/ End("is_initialized", "OSError")
       \/ /\ ~project_initialized
          /\ End("is_initialized", "ProjectNotInitializedError")
    /\ UNCHANGED <<closeFailed, project_initialized, normalized>>
    /\ UNCHANGED notRun
    /\ UNCHANGED <<create_licenses_vectorstore, nextDb, poolOpen, sessionOpen, segment,
                   task, software, error, outcome, flushArgs, flushResult, persisted,
                   pending>>

(***************************************************************************)
(* context.py:91-113 _init_db_pools with core.py:53-67 init_pool: one pool *)
(* per step.  create_pool failing with PostgresError becomes DatabaseError,*)
(* which closes the pools opened so far; any other exception of            *)
(* create_pool (OSError when the server does not answer) passes through    *)
(* init_pool and _init_db_pools unhandled.                                 *)
(***************************************************************************)
init_pool ==
    /\ pc = "init_pools"
    /\ \/ /\ poolOpen' = poolOpen \cup {Databases[nextDb]}
          /\ IF nextDb < Len(Databases)
                THEN nextDb' = nextDb + 1 /\ pc' = "init_pools"
                ELSE nextDb' = nextDb /\ pc' = "jinja"
          /\ UNCHANGED <<raised, raisedIn>>
       \/ /\ poolOpen' = close_pools(poolOpen)
          /\ End("prepare_context", "DatabaseError")
          /\ UNCHANGED nextDb
       \/ /\ End("prepare_context", "OSError")
          /\ UNCHANGED <<poolOpen, nextDb>>
    /\ UNCHANGED <<closeFailed, project_initialized, normalized>>
    /\ UNCHANGED notRun
    /\ UNCHANGED <<create_licenses_vectorstore, sessionOpen, segment,
                   task, software, error, outcome, flushArgs, flushResult, persisted,
                   pending>>

(***************************************************************************)
(* context.py:49-51 with db/rendering.py:28-35 : create_jinja_environment  *)
(* raises SQLTemplateError; prepare_context has no handler around it.      *)
(***************************************************************************)
create_jinja_environment ==
    /\ pc = "jinja"
    /\ \/ /\ pc' = IF create_licenses_vectorstore THEN "vectorstore" ELSE "session"
          /\ UNCHANGED <<raised, raisedIn>>
       \/ End("prepare_context", "SQLTemplateError")
    /\ UNCHANGED <<closeFailed, project_initialized, normalized>>
    /\ UNCHANGED notRun
    /\ UNCHANGED <<create_licenses_vectorstore, nextDb, poolOpen, sessionOpen, segment,
                   task, software, error, outcome, flushArgs, flushResult, persisted,
                   pending>>

(***************************************************************************)
(* context.py:59-64 : license_resolver.create_vectorstore()                *)
(***************************************************************************)
create_vectorstore ==
    /\ pc = "vectorstore"
    /\ \/ /\ pc' = "session"
          /\ UNCHANGED <<raised, raisedIn, poolOpen>>
       \/ /\ poolOpen' = close_pools(poolOpen)
          /\ End("prepare_context", "ContextPreparationError")
    /\ UNCHANGED <<closeFailed, project_initialized, normalized>>
    /\ UNCHANGED notRun
    /\ UNCHANGED <<create_licenses_vectorstore, nextDb, sessionOpen, segment,
                   task, software, error, outcome, flushArgs, flushResult, persisted,
                   pending>>

(***************************************************************************)
(* context.py:65-72 with webtools/session.py:14-45 : SessionManager()      *)
(* creates the sessions one after another; a ClientError after n of them   *)
(* closes the pools and raises ContextPreparationError.                    *)
(***************************************************************************)
SessionManager ==
    /\ pc = "session"
    /\ \/ /\ sessionOpen' = SessionNames
          /\ pc' = "filter"
          /\ UNCHANGED <<raised, raisedIn, poolOpen>>
       \/ \E n \in 0..(Len(session_names) - 1) :
            /\ sessionOpen' = {session_names[i] : i \in 1..n}
            /\ poolOpen' = close_pools(poolOpen)
            /\ End("prepare_context", "ContextPreparationError")
    /\ UNCHANGED <<closeFailed, project_initialized, normalized>>
    /\ UNCHANGED notRun
    /\ UNCHANGED <<create_licenses_vectorstore, nextDb, segment,
                   task, software, error, outcome, flushArgs, flushResult, persisted,
                   pending>>

(***************************************************************************)
(* recognition.py:44-59 : inside managed_context, the fingerprints are     *)
(* normalized and those already recognized are filtered out.  A            *)
(* DatabaseError or SQLTemplateError is logged and re-raised; any other    *)
(* exception of the query (core.py:39 acquires the connection outside its  *)
(* try) is raised as it is.  Both leave through managed_context.           *)
(***************************************************************************)
filter_recognized_fingerprints ==
    /\ pc = "filter"
    /\ normalized' = TRUE
    /\ \/ /\ pc' = "segment"
          /\ UNCHANGED pending
       \/ \E exc \in {"DatabaseError", "SQLTemplateError", "OSError"} :
            /\ pending' = exc
            /\ pc' = "close_sessions"
    /\ UNCHANGED <<closeFailed, project_initialized>>
    /\ UNCHANGED notRun
    /\ UNCHANGED <<create_licenses_vectorstore, nextDb, poolOpen, sessionOpen, segment,
                   task, software, error, outcome, flushArgs, flushResult, persisted,
                   raised, raisedIn>>

(***************************************************************************)
(* recognition.py:60-75 : the next batch; one task per fingerprint of the  *)
(* batch is created before gather is awaited.                              *)
(***************************************************************************)
recognize_segment ==
    /\ pc = "segment"
    /\ IF segment < NumSegments
          THEN /\ segment' = segment + 1
               /\ task' = [f \in Fingerprints |->
                             IF f \in batched(segment + 1) THEN "created" ELSE task[f]]
               /\ pc' = "gather"
          ELSE /\ pc' = "close_sessions"
               /\ UNCHANGED <<segment, task>>
    /\ UNCHANGED <<closeFailed, project_initialized, normalized>>
    /\ UNCHANGED notRun
    /\ UNCHANGED <<create_licenses_vectorstore, nextDb, poolOpen, sessionOpen,
                   software, error, outcome, flushArgs, flushResult, persisted,
                   pending, raised, raisedIn>>

(***************************************************************************)
(* recognition.py:94 with software.py:34-67 : the task starts by building  *)
(* the SoftwareRecognizer, outside every try: an exception of the          *)
(* constructor ends the task with that exception.                          *)
(***************************************************************************)
SoftwareRecognizer(f) ==
    /\ pc # "ended"
    /\ task[f] = "created"
    /\ \/ task' = [task EXCEPT ![f] = "constructed"]
       \/ task' = [task EXCEPT ![f] = "raised"]
    /\ UNCHANGED <<closeFailed, project_initialized, normalized>>
    /\ UNCHANGED notRun
    /\ UNCHANGED <<pc, create_licenses_vectorstore, nextDb, poolOpen, sessionOpen, segment,
                   software, error, outcome, flushArgs, flushResult, persisted,
                   pending, raised, raisedIn>>

(***************************************************************************)
(* software.py:69-92 and recognition.py:94-108 : the resolution.           *)
(* _recognize() ends normally or with an exception, in both cases with     *)
(* self.software set or not; recognize() maps that to the task's value.    *)
(***************************************************************************)
TaskRecognize(f) ==
    /\ pc # "ended"
    /\ task[f] = "constructed"
    /\ \E softwareSet \in BOOLEAN, exc \in {None, "DatabaseError", "KeyError"} :
         /\ software' = [software EXCEPT ![f] = softwareSet]
         /\ error' = [error EXCEPT ![f] = exc]
         /\ outcome' = [outcome EXCEPT ![f] = recognize(softwareSet, exc)]
    /\ task' = [task EXCEPT ![f] = "returned"]
    /\ UNCHANGED <<closeFailed, project_initialized, normalized>>
    /\ UNCHANGED notRun
    /\ UNCHANGED <<pc, create_licenses_vectorstore, nextDb, poolOpen, sessionOpen, segment,
                   flushArgs, flushResult, persisted, pending, raised, raisedIn>>

(***************************************************************************)
(* recognition.py:76-81 : gather.  With every task returned, the results   *)
(* that are not None go to the flush; with none, the batch is over.  An    *)
(* exception of a task is raised by gather and leaves _recognize_segment   *)
(* and the loop over the batches.                                          *)
(***************************************************************************)
gather ==
    /\ pc = "gather"
    /\ \/ /\ gatherReturns(segment)
          /\ IF results(segment) # {}
                THEN /\ flushArgs' = [flushArgs EXCEPT ![segment] = results(segment)]
                     /\ pc' = "flush"
                ELSE /\ pc' = "segment"
                     /\ UNCHANGED flushArgs
          /\ UNCHANGED pending
       \/ /\ gatherRaises(segment)
          /\ pending' = "AttributeError"
          /\ pc' = "close_sessions"
          /\ UNCHANGED flushArgs
    /\ UNCHANGED <<closeFailed, project_initialized, normalized>>
    /\ UNCHANGED notRun
    /\ UNCHANGED <<create_licenses_vectorstore, nextDb, poolOpen, sessionOpen, segment,
                   task, software, error, outcome, flushResult, persisted, raised,
                   raisedIn>>

(***************************************************************************)
(* recognition.py:82-87 with output.py:44-89 and core.py:21-50 :           *)
(* update_recognized_table.  A template error and a failed query come back *)
(* as SQLTemplateError and DatabaseError, which _recognize_segment logs    *)
(* and drops; pool.acquire() (core.py:39) is outside query_db's try, so    *)
(* its failure is neither.                                                 *)
(***************************************************************************)
update_recognized_table ==
    /\ pc = "flush"
    /\ \/ /\ flushResult' = [flushResult EXCEPT ![segment] = "ok"]
          /\ persisted' = persisted \cup flushArgs[segment]
          /\ pc' = "segment"
          /\ UNCHANGED pending
       \/ \E exc \in {"DatabaseError", "SQLTemplateError"} :
            /\ flushResult' = [flushResult EXCEPT ![segment] = exc]
            /\ pc' = "segment"
            /\ UNCHANGED <<persisted, pending>>
       \/ /\ flushResult' = [flushResult EXCEPT ![segment] = "OSError"]
          /\ pending' = "OSError"
          /\ pc' = "close_sessions"
          /\ UNCHANGED persisted
    /\ UNCHANGED <<closeFailed, project_initialized, normalized>>
    /\ UNCHANGED notRun
    /\ UNCHANGED <<create_licenses_vectorstore, nextDb, poolOpen, sessionOpen, segment,
                   task, software, error, outcome, flushArgs, raised, raisedIn>>

(***************************************************************************)
(* context.py:34-37 with webtools/session.py:24-35 : managed_context's     *)
(* finally starts with close_sessions.  A ClientError of a session's       *)
(* close() is logged and the loop goes on; any other exception of close()  *)
(* leaves the loop, close_sessions and the finally block, before           *)
(* _close_pools.                                                           *)
(***************************************************************************)
close_sessions ==
    /\ pc = "close_sessions"
    /\ \/ \E failing \in {{}} \cup {{name} : name \in sessionOpen} :
            /\ sessionOpen' = failing
            /\ closeFailed' = closeFailed \cup failing
            /\ pc' = "close_pools"
            /\ UNCHANGED <<raised, raisedIn>>
       \/ \E i \in 1..Len(session_names) :
            /\ session_names[i] \in sessionOpen
            /\ sessionOpen' = {session_names[j] : j \in i..Len(session_names)}
            /\ closeFailed' = closeFailed \cup {session_names[i]}
            /\ End("managed_context", "RuntimeError")
    /\ UNCHANGED notRun
    /\ UNCHANGED <<create_licenses_vectorstore, nextDb, poolOpen, segment,
                   task, software, error, outcome, flushArgs, flushResult, persisted,
                   pending, project_initialized, normalized>>

\* the pools _close_pools has closed when the close() of the i-th raises
closed_before(i) == {Databases[j] : j \in 1..(i - 1)}

(***************************************************************************)
(* context.py:37 with context.py:116-119 : _close_pools closes the pools   *)
(* one after another, with no handler: an exception of a pool's close()    *)
(* leaves the pools after it open.  Then the run ends, with the exception  *)
(* that was propagating or with the one of close().                        *)
(***************************************************************************)
managed_context_exit ==
    /\ pc = "close_pools"
    /\ \/ /\ poolOpen' = close_pools(poolOpen)
          /\ End("managed_context", pending)
          /\ UNCHANGED closeFailed
       \/ \E i \in 1..Len(Databases) :
            /\ Databases[i] \in poolOpen
            /\ poolOpen' = poolOpen \ closed_before(i)
            /\ closeFailed' = closeFailed \cup {Databases[i]}
            /\ End("managed_context", "InterfaceError")
    /\ UNCHANGED notRun
    /\ UNCHANGED <<create_licenses_vectorstore, nextDb, sessionOpen, segment,
                   task, software, error, outcome, flushArgs, flushResult, persisted,
                   pending, project_initialized, normalized>>

(***************************************************************************)
(* webtools/response.py : one fetch of a Response                          *)
(***************************************************************************)
ResponseClasses == {"BinaryResponse", "JsonResponse", "TextResponse"}

\* The statuses of the responses session.get() hands back.  The session
\* follows redirects; a chain of redirects that does not end comes back as
\* the exception TooManyRedirects.
Statuses == {200, 204, 400, 404, 499, 500, 503}

\* the classes of the exceptions a fetch meets, each with its base class
BaseOf(cls) ==
    CASE cls = "ContentTypeError" -> "ClientResponseError"
      [] cls = "TooManyRedirects" -> "ClientResponseError"
      [] cls = "ClientResponseError" -> "ClientError"
      [] cls = "ClientConnectorError" -> "ClientError"
      [] cls = "ServerDisconnectedError" -> "ClientError"
      [] cls = "ClientPayloadError" -> "ClientError"
      [] cls = "ClientError" -> "Exception"
      [] cls = "TimeoutError" -> "Exception"
      [] cls = "JSONDecodeError" -> "Exception"
      [] cls = "RecursionError" -> "Exception"
      [] cls = "Exception" -> "BaseException"
      [] OTHER -> None

RECURSIVE isinstance(_, _)
isinstance(cls, base) ==
    IF cls = None THEN FALSE
    ELSE cls = base \/ isinstance(BaseOf(cls), base)

\* response.py:72,80 : the classes of the except clauses of _perform_fetch
exceptClausesClientErrorOnly == <<"ClientResponseError", "ClientError">>

exceptClauses == <<"ClientResponseError", "Exception">>

\* the except clause that handles an exception of class cls (0: none does)
caught_by(cls) ==
    IF isinstance(cls, exceptClauses[1]) THEN 1
    ELSE IF isinstance(cls, exceptClauses[2]) THEN 2
    ELSE 0

\* response.py:71 : response.raise_for_status() raises ClientResponseError
raise_for_status(status) == status >= 400

\* exceptions of session.get() before there is a response: <<class, status>>
GetErrors ==
    {<<"TimeoutError", 0>>, <<"ClientConnectorError", 0>>,
     <<"ServerDisconnectedError", 0>>, <<"TooManyRedirects", 302>>}

\* exceptions of reading and decoding the body of a response with that status.
\* response.json() raises ContentTypeError, which carries the status of the
\* response, and JSONDecodeError; response.text() failing with UnicodeError
\* is decoded again as latin-1 (response.py:213-216), which decodes any bytes.
ReadErrors(cls, status) ==
    {<<"ClientPayloadError", 0>>, <<"TimeoutError", 0>>}
      \cup (IF cls = "JsonResponse"
               THEN {<<"ContentTypeError", status>>, <<"JSONDecodeError", 0>>}
               ELSE {})

FetchFields ==
    /\ got_status = 0
    /\ fetch_exc = None
    /\ exc_status = 0
    /\ status_code = 0
    /\ content = None
    /\ logged = None
    /\ fetch_raised = None
    /\ meta_refreshes = 0

\* response.py:26-46 : the Response is constructed
InitFetch ==
    /\ fetch_pc = "fetch"
    /\ response_class \in ResponseClasses
    /\ treat_http_client_error_as_warning \in BOOLEAN
    /\ no_meta_refresh \in (IF response_class = "TextResponse" THEN BOOLEAN ELSE {TRUE})
    /\ FetchFields

IdleFetch ==
    /\ fetch_pc = "idle"
    /\ response_class = "JsonResponse"
    /\ treat_http_client_error_as_warning = FALSE
    /\ no_meta_refresh = TRUE
    /\ FetchFields

(***************************************************************************)
(* response.py:126-131, 165-170, 206-211 : self._session.get(...) inside   *)
(* _fetch: a response with a status, or an exception.                      *)
(***************************************************************************)
session_get ==
    /\ fetch_pc = "fetch"
    /\ \/ \E status \in Statuses :
            /\ got_status' = status
            /\ fetch_pc' = "read"
            /\ UNCHANGED <<fetch_exc, exc_status>>
       \/ \E e \in GetErrors :
            /\ fetch_exc' = e[1]
            /\ exc_status' = e[2]
            /\ fetch_pc' = "except"
            /\ UNCHANGED got_status
    /\ UNCHANGED <<response_class, treat_http_client_error_as_warning, no_meta_refresh,
                   status_code, content, logged, fetch_raised, meta_refreshes>>
    /\ UNCHANGED notFetch

(***************************************************************************)
(* response.py:132-134, 171-173, 212-218 : the body is read into           *)
(* self._content, whatever the status; a TextResponse that follows meta    *)
(* refreshes goes on to look for one.                                      *)
(***************************************************************************)
read_content ==
    /\ fetch_pc = "read"
    /\ \/ /\ content' = "content"
          /\ fetch_pc' = IF response_class = "TextResponse" /\ ~no_meta_refresh
                            THEN "meta_refresh" ELSE "status"
          /\ UNCHANGED <<fetch_exc, exc_status>>
       \/ \E e \in ReadErrors(response_class, got_status) :
            /\ fetch_exc' = e[1]
            /\ exc_status' = e[2]
            /\ fetch_pc' = "except"
            /\ UNCHANGED content
    /\ UNCHANGED <<response_class, treat_http_client_error_as_warning, no_meta_refresh,
                   got_status, status_code, logged, fetch_raised, meta_refreshes>>
    /\ UNCHANGED notFetch

(***************************************************************************)
(* response.py:219-222 : _extract_meta_refresh_url.  Without a refresh the *)
(* response is returned; with one, _fetch calls itself, and a page that    *)
(* refreshes for ever ends the recursion with RecursionError.              *)
(***************************************************************************)
extract_meta_refresh_url ==
    /\ fetch_pc = "meta_refresh"
    /\ \/ /\ fetch_pc' = "status"
          /\ UNCHANGED <<fetch_exc, exc_status, meta_refreshes>>
       \/ /\ meta_refreshes < MaxMetaRefresh
          /\ meta_refreshes' = meta_refreshes + 1
          /\ fetch_pc' = "fetch"
          /\ UNCHANGED <<fetch_exc, exc_status>>
       \/ /\ meta_refreshes = MaxMetaRefresh
          /\ fetch_exc' = "RecursionError"
          /\ exc_status' = 0
          /\ fetch_pc' = "except"
          /\ UNCHANGED meta_refreshes
    /\ UNCHANGED <<response_class, treat_http_client_error_as_warning, no_meta_refresh,
                   got_status, status_code, content, logged, fetch_raised>>
    /\ UNCHANGED notFetch

(***************************************************************************)
(* response.py:60-84 : _perform_fetch after _fetch has returned or raised. *)
(* A returned response sets the status code and goes through               *)
(* raise_for_status; the exception, if there is one, meets the except      *)
(* clauses in their order.                                                 *)
(***************************************************************************)
perform_fetch ==
    /\ fetch_pc \in {"status", "except"}
    /\ LET cls == IF fetch_pc = "except" THEN fetch_exc
                  ELSE IF raise_for_status(got_status) THEN "ClientResponseError"
                  ELSE None
           st == IF fetch_pc = "except" THEN exc_status ELSE got_status
           clause == IF cls = None THEN 0 ELSE caught_by(cls)
       IN  /\ status_code' = IF fetch_pc = "status" THEN got_status ELSE status_code
           /\ fetch_exc' = cls
           /\ exc_status' = IF cls = None THEN 0 ELSE st
           /\ content' = IF clause # 0 THEN None ELSE content
           /\ logged' = IF clause = 1
                           THEN IF treat_http_client_error_as_warning
                                   /\ 400 <= st /\ st <= 499
                                THEN "warning" ELSE "error"
                        ELSE IF clause = 2 THEN "error"
                        ELSE None
           /\ fetch_raised' = IF cls = None THEN None
                              ELSE IF clause # 0 THEN "ResponseError"
                              ELSE cls
    /\ fetch_pc' = "done"
    /\ UNCHANGED <<response_class, treat_http_client_error_as_warning, no_meta_refresh,
                   got_status, meta_refreshes>>
    /\ UNCHANGED notFetch

NextFetch ==
    \/ session_get
    \/ read_content
    \/ extract_meta_refresh_url
    \/ perform_fetch

(***************************************************************************)
(* The requests of concurrent fingerprint tasks to GitHub, GitLab and UDD. *)
(* A task goes through software.py:208-219: the package (a Debian or       *)
(* Ubuntu package asks UDD for its homepage), correct_url, then the        *)
(* project behind the URL.                                                 *)
(***************************************************************************)
LockTasks == 1..NumTasks

Platforms == {"GitHub", "GitLab", "UDD"}

\* typestore/datatypes.py:331-346 : the locks of SynchronizationPrimitives
Locks == {"github_lock", "gitlab_lock", "udd_lock"}

\* projects.py:56, projects.py:257, packages.py:189 : the lock of a platform
lock_ofOneLock(platform) == "github_lock"

lock_of(platform) ==
    CASE platform = "GitHub" -> "github_lock"
      [] platform = "GitLab" -> "gitlab_lock"
      [] platform = "UDD" -> "udd_lock"

InitLock ==
    /\ lpc = [t \in LockTasks |-> "initialize"]
    /\ mode = [t \in LockTasks |-> None]
    /\ req = [t \in LockTasks |-> None]
    /\ page = [t \in LockTasks |-> 0]
    /\ lockOwner = [l \in Locks |-> 0]
    /\ stuck = {}
    /\ since_stall = [t \in LockTasks |-> FALSE]

IdleLock ==
    /\ lpc = [t \in LockTasks |-> "idle"]
    /\ mode = [t \in LockTasks |-> None]
    /\ req = [t \in LockTasks |-> None]
    /\ page = [t \in LockTasks |-> 0]
    /\ lockOwner = [l \in Locks |-> 0]
    /\ stuck = {}
    /\ since_stall = [t \in LockTasks |-> FALSE]

\* `async with lock:` followed by the request: the lock is taken when it is
\* free, and the request is under way before the task gives up control
SendLocked(t, platform) ==
    /\ req[t] = None
    /\ lockOwner[lock_of(platform)] = 0
    /\ lockOwner' = [lockOwner EXCEPT ![lock_of(platform)] = t]
    /\ req' = [req EXCEPT ![t] = platform]

\* the request returns (a response or ResponseError) and the block of the
\* lock is left
ReturnLocked(t, platform) ==
    /\ req[t] = platform
    /\ t \notin stuck
    /\ lockOwner' = [lockOwner EXCEPT ![lock_of(platform)] = 0]
    /\ req' = [req EXCEPT ![t] = None]

\* task t takes a step: note whether another task's request is stuck
Stepped(t) ==
    since_stall' = [since_stall EXCEPT ![t] = since_stall[t] \/ (stuck \ {t} # {})]

(***************************************************************************)
(* packages.py:179-200, 300-319 : initialize() of the package.  A Debian   *)
(* or Ubuntu package goes to UDD.get_homepage, the others do not.          *)
(***************************************************************************)
initialize(t) ==
    /\ lpc[t] = "initialize"
    /\ \/ lpc' = [lpc EXCEPT ![t] = "get_homepage"]
       \/ lpc' = [lpc EXCEPT ![t] = "correct_url"]
    /\ Stepped(t)
    /\ UNCHANGED <<mode, req, page, lockOwner, stuck>>
    /\ UNCHANGED notLock

(***************************************************************************)
(* udd.py:39-78 : UDD.get_homepage.  The name of the source package is     *)
(* fetched under udd_lock; with a source package, its record is fetched    *)
(* under udd_lock again.                                                   *)
(***************************************************************************)
get_homepage(t) ==
    /\ lpc[t] \in {"get_homepage", "get_package_info"}
    /\ \/ /\ SendLocked(t, "UDD")
          /\ UNCHANGED lpc
       \/ /\ ReturnLocked(t, "UDD")
          /\ \/ lpc' = [lpc EXCEPT ![t] = "correct_url"]
             \/ /\ lpc[t] = "get_homepage"
                /\ lpc' = [lpc EXCEPT ![t] = "get_package_info"]
    /\ Stepped(t)
    /\ UNCHANGED <<mode, page, stuck>>
    /\ UNCHANGED notLock

(***************************************************************************)
(* packages.py:714-747 : correct_url.  An incomplete GitHub URL, or one    *)
(* that names a GitHub page, goes to _find_full_github_url.                *)
(***************************************************************************)
correct_url(t) ==
    /\ lpc[t] = "correct_url"
    /\ \/ lpc' = [lpc EXCEPT ![t] = "find_full_github_url"]
       \/ lpc' = [lpc EXCEPT ![t] = "url_to_project"]
    /\ Stepped(t)
    /\ UNCHANGED <<mode, req, page, lockOwner, stuck>>
    /\ UNCHANGED notLock

(***************************************************************************)
(* packages.py:750-768 : _find_full_github_url asks the GitHub API for the *)
(* repositories of the user, on the session 'github', without a lock.      *)
(***************************************************************************)
find_full_github_url(t) ==
    /\ lpc[t] = "find_full_github_url"
    /\ \/ /\ req[t] = None
          /\ req' = [req EXCEPT ![t] = "GitHub"]
          /\ UNCHANGED lpc
       \/ /\ req[t] = "GitHub"
          /\ t \notin stuck
          /\ req' = [req EXCEPT ![t] = None]
          /\ lpc' = [lpc EXCEPT ![t] = "url_to_project"]
    /\ Stepped(t)
    /\ UNCHANGED <<mode, page, lockOwner, stuck>>
    /\ UNCHANGED notLock

(***************************************************************************)
(* software.py:215-219 : url_to_project gives the class of the project, or *)
(* None for a page that is no project of a known platform.                 *)
(***************************************************************************)
url_to_project(t) ==
    /\ lpc[t] = "url_to_project"
    /\ \/ \E m \in {"GitHub", "GitLab"} :
            /\ mode' = [mode EXCEPT ![t] = m]
            /\ lpc' = [lpc EXCEPT ![t] = "load_project_info"]
       \/ /\ lpc' = [lpc EXCEPT ![t] = "done"]
          /\ UNCHANGED mode
    /\ Stepped(t)
    /\ UNCHANGED <<req, page, lockOwner, stuck>>
    /\ UNCHANGED notLock

(***************************************************************************)
(* projects.py:213-220, 413-420 : _load_project_info, the request under    *)
(* the lock of the platform.  ResponseError or an empty answer leaves the  *)
(* project unconfirmed.                                                    *)
(***************************************************************************)
load_project_info(t) ==
    /\ lpc[t] = "load_project_info"
    /\ \/ /\ SendLocked(t, mode[t])
          /\ UNCHANGED <<lpc, page>>
       \/ /\ ReturnLocked(t, mode[t])
          /\ \/ /\ lpc' = [lpc EXCEPT ![t] = "done"]
                /\ UNCHANGED page
             \/ /\ lpc' = [lpc EXCEPT ![t] = "fetch_tag_with_version"]
                /\ page' = [page EXCEPT ![t] = 1]
    /\ Stepped(t)
    /\ UNCHANGED <<mode, stuck>>
    /\ UNCHANGED notLock

(***************************************************************************)
(* projects_base.py:361-383 : _fetch_tag_with_version.  Each page is       *)
(* requested under the lock, which is free again between two pages; the    *)
(* search ends with ResponseError, an empty page or the tag.               *)
(***************************************************************************)
fetch_tag_with_version(t) ==
    /\ lpc[t] = "fetch_tag_with_version"
    /\ \/ /\ SendLocked(t, mode[t])
          /\ UNCHANGED <<lpc, page>>
       \/ /\ ReturnLocked(t, mode[t])
          /\ \/ /\ lpc' = [lpc EXCEPT ![t] = "done"]
                /\ UNCHANGED page
             \/ /\ page[t] < MaxPages
                /\ page' = [page EXCEPT ![t] = page[t] + 1]
                /\ UNCHANGED lpc
    /\ Stepped(t)
    /\ UNCHANGED <<mode, stuck>>
    /\ UNCHANGED notLock

(***************************************************************************)
(* The request in flight of task t does not return (response.py:126-131:   *)
(* the session's get awaits the server).                                   *)
(***************************************************************************)
Stall(t) ==
    /\ req[t] # None
    /\ t \notin stuck
    /\ stuck' = stuck \cup {t}
    /\ UNCHANGED <<lpc, mode, req, page, lockOwner, since_stall>>
    /\ UNCHANGED notLock

\* the steps of task t
TaskStep(t) ==
    \/ initialize(t)
    \/ get_homepage(t)
    \/ correct_url(t)
    \/ find_full_github_url(t)
    \/ url_to_project(t)
    \/ load_project_info(t)
    \/ fetch_tag_with_version(t)

NextLock ==
    \/ \E t \in LockTasks : initialize(t)
    \/ \E t \in LockTasks : get_homepage(t)
    \/ \E t \in LockTasks : correct_url(t)
    \/ \E t \in LockTasks : find_full_github_url(t)
    \/ \E t \in LockTasks : url_to_project(t)
    \/ \E t \in LockTasks : load_project_info(t)
    \/ \E t \in LockTasks : fetch_tag_with_version(t)
    \/ \E t \in LockTasks : Stall(t)

(***************************************************************************)
(* The jobs concurrent fingerprint tasks offload to threads, on the way    *)
(* through software.py:221-261: _resolve_description_and_homepage, then    *)
(* _resolve_software_properties with _resolve_cpe_info.                    *)
(***************************************************************************)
Offloaders == 1..NumOffloaders

InitSem ==
    /\ spc = [t \in Offloaders |-> "resolve_description_and_homepage"]
    /\ semaphore = semaphore_value
    /\ own_semaphore = [t \in Offloaders |-> 0]

IdleSem ==
    /\ spc = [t \in Offloaders |-> "idle"]
    /\ semaphore = semaphore_value
    /\ own_semaphore = [t \in Offloaders |-> 0]

(***************************************************************************)
(* software.py:263-277 : without a description, fetch_html_text is called  *)
(* with the URL and the session manager only, so response.py:250-251 makes *)
(* a Semaphore() of its own, with one slot.                                *)
(***************************************************************************)
resolve_description_and_homepage(t) ==
    /\ spc[t] = "resolve_description_and_homepage"
    /\ \/ /\ spc' = [spc EXCEPT ![t] = "fetch_html_text"]
          /\ own_semaphore' = [own_semaphore EXCEPT ![t] = 1]
       \/ /\ spc' = [spc EXCEPT ![t] = "resolve_cpe_info"]
          /\ UNCHANGED own_semaphore
    /\ UNCHANGED semaphore
    /\ UNCHANGED notSem

(***************************************************************************)
(* response.py:252-263 : the page is fetched; ResponseError gives an empty *)
(* HTMLParse, a response goes to _parse_response through async_to_thread.  *)
(***************************************************************************)
fetch_html_text(t) ==
    /\ spc[t] = "fetch_html_text"
    /\ \/ spc' = [spc EXCEPT ![t] = "resolve_cpe_info"]
       \/ spc' = [spc EXCEPT ![t] = "parse_response"]
    /\ UNCHANGED <<semaphore, own_semaphore>>
    /\ UNCHANGED notSem

(***************************************************************************)
(* synchronization.py:5-12 with response.py:263 : async_to_thread on the   *)
(* semaphore of fetch_html_text.  The job, the HTML-to-text conversion,    *)
(* runs in a thread while the slot is held.                                *)
(***************************************************************************)
parse_response(t) ==
    /\ \/ /\ spc[t] = "parse_response"
          /\ own_semaphore[t] > 0
          /\ own_semaphore' = [own_semaphore EXCEPT ![t] = own_semaphore[t] - 1]
          /\ spc' = [spc EXCEPT ![t] = "parse_response in thread"]
       \/ /\ spc[t] = "parse_response in thread"
          /\ own_semaphore' = [own_semaphore EXCEPT ![t] = own_semaphore[t] + 1]
          /\ spc' = [spc EXCEPT ![t] = "resolve_cpe_info"]
    /\ UNCHANGED semaphore
    /\ UNCHANGED notSem

(***************************************************************************)
(* software.py:304-318 : _resolve_cpe_info.  After the query,              *)
(* _establish_cpe_identity is run through async_to_thread on the           *)
(* semaphore of the run (self._semaphore).                                 *)
(***************************************************************************)
resolve_cpe_info(t) ==
    /\ \/ /\ spc[t] = "resolve_cpe_info"
          /\ semaphore > 0
          /\ semaphore' = semaphore - 1
          /\ spc' = [spc EXCEPT ![t] = "establish_cpe_identity in thread"]
       \/ /\ spc[t] = "establish_cpe_identity in thread"
          /\ semaphore' = semaphore + 1
          /\ spc' = [spc EXCEPT ![t] = "done"]
    /\ UNCHANGED own_semaphore
    /\ UNCHANGED notSem

NextSem ==
    \/ \E t \in Offloaders : resolve_description_and_homepage(t)
    \/ \E t \in Offloaders : fetch_html_text(t)
    \/ \E t \in Offloaders : parse_response(t)
    \/ \E t \in Offloaders : resolve_cpe_info(t)

(***************************************************************************)
(* software.py:69-318 : the decision tree of one fingerprint.  A lookup of *)
(* an adapter that meets a transport or persistence error, or finds        *)
(* nothing, gives its caller no data; the tree decides what comes next.    *)
(***************************************************************************)
OrchFields ==
    /\ package = None
    /\ has_software = FALSE
    /\ fetch_method_used = None
    /\ failed_step = None
    /\ failed_kind = None
    /\ ended_in = None
    /\ exception = None
    /\ returned = "pending"

\* the inputs: the library pattern the name matches, and the number of
\* package classes of the distribution named by the publisher
InitOrch ==
    /\ opc = "recognize_library_package"
    /\ library \in {None, "python", "ruby", "perl"}
    /\ classes_left \in 0..MaxClasses
    /\ OrchFields

IdleOrch ==
    /\ opc = "idle"
    /\ library = None
    /\ classes_left = 0
    /\ OrchFields

\* a lookup gave no data
NoData(step, kind) ==
    /\ failed_step' = step
    /\ failed_kind' = kind

\* software.py:69-80 : recognize() ends, _recognize() having returned from
\* the step or raised exc in it
RecognizeEnds(step, softwareSet, exc) ==
    /\ opc' = "ended"
    /\ ended_in' = step
    /\ exception' = exc
    /\ returned' = recognize(softwareSet, exc)

(***************************************************************************)
(* software.py:82-87, 94-106 : _recognize_library_package.  Without a      *)
(* library pattern, and with a library project that was not confirmed,     *)
(* self.software stays None and _recognize goes on to _collect_core_info.  *)
(***************************************************************************)
recognize_library_package ==
    /\ opc = "recognize_library_package"
    /\ \/ /\ library = None
          /\ opc' = "collect_core_info"
          /\ UNCHANGED <<has_software, fetch_method_used, failed_step, failed_kind>>
       \/ /\ library # None
          /\ has_software' = TRUE
          /\ fetch_method_used' = "_recognize_library_package"
          /\ opc' = "resolve_software_properties"
          /\ UNCHANGED <<failed_step, failed_kind>>
       \/ /\ library # None
          /\ \E kind \in {"transport", "unconfirmed"} : NoData("library project", kind)
          /\ fetch_method_used' = "_scan_public_project"
          /\ opc' = "collect_core_info"
          /\ UNCHANGED has_software
    /\ UNCHANGED <<library, classes_left, package, ended_in, exception, returned>>
    /\ UNCHANGED notOrch

(***************************************************************************)
(* software.py:171-186 : _fetch_with_corresponding_classes.  A class whose *)
(* lookup gives no package URL is followed by the next class; after the    *)
(* last one _collect_core_info goes to the universal class.                *)
(***************************************************************************)
fetch_with_corresponding_classes ==
    /\ opc = "collect_core_info"
    /\ \/ /\ classes_left = 0
          /\ opc' = "fetch_with_universal_class"
          /\ UNCHANGED <<classes_left, package, failed_step, failed_kind>>
       \/ /\ classes_left > 0
          /\ \E kind \in {"transport", "persistence", "no data"} :
                NoData("package class", kind)
          /\ classes_left' = classes_left - 1
          /\ UNCHANGED <<opc, package>>
       \/ /\ classes_left > 0
          /\ \E homepage \in {"no homepage", "project", "external"} : package' = homepage
          /\ opc' = "retrieve_package_information"
          /\ UNCHANGED <<classes_left, failed_step, failed_kind>>
    /\ UNCHANGED <<library, has_software, fetch_method_used, ended_in, exception, returned>>
    /\ UNCHANGED notOrch

(***************************************************************************)
(* software.py:188-198 with software.py:90-91 : the universal class.       *)
(* Without a package URL _recognize returns: there is nothing left to try. *)
(***************************************************************************)
fetch_with_universal_class ==
    /\ opc = "fetch_with_universal_class"
    /\ \/ /\ \E kind \in {"persistence", "no data"} : NoData("universal class", kind)
          /\ RecognizeEnds("universal class", has_software, None)
          /\ UNCHANGED package
       \/ /\ \E homepage \in {"no homepage", "project", "external"} : package' = homepage
          /\ opc' = "retrieve_package_information"
          /\ UNCHANGED <<failed_step, failed_kind, ended_in, exception, returned>>
    /\ UNCHANGED <<library, classes_left, has_software, fetch_method_used>>
    /\ UNCHANGED notOrch

(***************************************************************************)
(* software.py:208-261 : _retrieve_package_information.  Without a         *)
(* homepage the package itself is the software                             *)
(* (_recognize_distro_specific_package); a homepage that is no project of  *)
(* a known platform goes to _fetch_for_external; a project is scanned, and *)
(* when its membership is not confirmed _scan_public_project returns       *)
(* (software.py:241-242) and with it _recognize.                           *)
(***************************************************************************)
retrieve_package_information ==
    /\ opc = "retrieve_package_information"
    /\ \/ /\ package = "no homepage"
          /\ has_software' = TRUE
          /\ fetch_method_used' = "_recognize_distro_specific_package"
          /\ opc' = "resolve_description_and_homepage"
          /\ UNCHANGED <<failed_step, failed_kind, ended_in, exception, returned>>
       \/ /\ package = "external"
          /\ has_software' = TRUE
          /\ fetch_method_used' = "_fetch_for_external"
          /\ opc' = "resolve_description_and_homepage"
          /\ UNCHANGED <<failed_step, failed_kind, ended_in, exception, returned>>
       \/ /\ package = "project"
          /\ has_software' = TRUE
          /\ fetch_method_used' = "_scan_public_project"
          /\ opc' = "resolve_software_properties"
          /\ UNCHANGED <<failed_step, failed_kind, ended_in, exception, returned>>
       \/ /\ package = "project"
          /\ \E kind \in {"transport", "unconfirmed"} : NoData("project", kind)
          /\ fetch_method_used' = "_scan_public_project"
          /\ RecognizeEnds("project", has_software, None)
          /\ UNCHANGED has_software
    /\ UNCHANGED <<library, classes_left, package>>
    /\ UNCHANGED notOrch

(***************************************************************************)
(* software.py:263-277 with response.py:252-260 : the homepage is fetched  *)
(* when there is no description; ResponseError gives an empty HTMLParse    *)
(* and the resolution goes on.                                             *)
(***************************************************************************)
orch_resolve_description_and_homepage ==
    /\ opc = "resolve_description_and_homepage"
    /\ \/ UNCHANGED <<failed_step, failed_kind>>
       \/ NoData("homepage", "transport")
    /\ opc' = "resolve_software_properties"
    /\ UNCHANGED <<library, classes_left, package, has_software, fetch_method_used,
                   ended_in, exception, returned>>
    /\ UNCHANGED notOrch

(***************************************************************************)
(* software.py:295-318 with db/postgresql/cpe.py:21-33 :                   *)
(* _resolve_software_properties.  get_cpe_entities has no handler around   *)
(* query_db, nor has _resolve_cpe_info: DatabaseError leaves _recognize.   *)
(* The definition and the licenses come after; the LLM raises LLMError.    *)
(***************************************************************************)
resolve_software_properties ==
    /\ opc = "resolve_software_properties"
    /\ \/ /\ RecognizeEnds("licenses", has_software, None)
          /\ UNCHANGED <<failed_step, failed_kind>>
       \/ /\ NoData("cpe", "persistence")
          /\ RecognizeEnds("cpe", has_software, "DatabaseError")
       \/ /\ RecognizeEnds("definition", has_software, "LLMError")
          /\ UNCHANGED <<failed_step, failed_kind>>
    /\ UNCHANGED <<library, classes_left, package, has_software, fetch_method_used>>
    /\ UNCHANGED notOrch

NextOrch ==
    \/ recognize_library_package
    \/ fetch_with_corresponding_classes
    \/ fetch_with_universal_class
    \/ retrieve_package_information
    \/ orch_resolve_description_and_homepage
    \/ resolve_software_properties

(***************************************************************************)
(* normalization.py : FingerprintNormalizer on the version.  A string is a *)
(* sequence of characters.  The versions are those over VersionChars: a    *)
(* digit, the dot and the hyphen.  None of them holds a letter, white      *)
(* space, "9" or "0", so repo_pattern (line 54), the suffix pattern        *)
(* (datatypes.py:106) and the date pattern (datatypes.py:281) match none   *)
(* of them, and lines 55-57, 61 and 62 leave them as they are.             *)
(***************************************************************************)
VersionChars == {"1", ".", "-"}

RawVersions == UNION {[1..n -> VersionChars] : n \in 0..MaxVersionLen}

\* str.rsplit(c, 1) : the list of chunks, s cut at its last c
rsplit(s, c) ==
    IF \A i \in 1..Len(s) : s[i] # c THEN <<s>>
    ELSE LET last == CHOOSE i \in 1..Len(s) :
                         s[i] = c /\ \A j \in (i + 1)..Len(s) : s[j] # c
         IN  <<SubSeq(s, 1, last - 1), SubSeq(s, last + 1, Len(s))>>

\* str.split(c, 1) : the list of chunks, s cut at its first c
split(s, c) ==
    IF \A i \in 1..Len(s) : s[i] # c THEN <<s>>
    ELSE LET first == CHOOSE i \in 1..Len(s) :
                          s[i] = c /\ \A j \in 1..(i - 1) : s[j] # c
         IN  <<SubSeq(s, 1, first - 1), SubSeq(s, first + 1, Len(s))>>

RECURSIVE lstrip(_, _)
lstrip(s, chars) ==
    IF s # <<>> /\ Head(s) \in chars THEN lstrip(Tail(s), chars) ELSE s

RECURSIVE rstrip(_, _)
rstrip(s, chars) ==
    IF s # <<>> /\ s[Len(s)] \in chars THEN rstrip(SubSeq(s, 1, Len(s) - 1), chars) ELSE s

strip(s) == rstrip(lstrip(s, {" "}), {" "})

\* \d
Digits == <<"0", "1", "2", "3", "4", "5", "6", "7", "8", "9">>

digit(c) == \E d \in 1..Len(Digits) : Digits[d] = c

\* the letters of the strings drawn
Letters == {"a", "b", "c", "e", "h", "l", "p", "r", "t", "v", "α", "β"}

\* [^\W_] : a letter or a digit
alnum(c) == digit(c) \/ c \in Letters

\* [\W_] : neither a letter nor a digit
separator(c) == ~alnum(c)

\* the length of the longest prefix of s whose characters all are, or all
\* are not, separators
RECURSIVE run(_, _)
run(s, sep) ==
    IF s = <<>> \/ separator(Head(s)) # sep THEN 0 ELSE 1 + run(Tail(s), sep)

\* normalization.py:87 : separator_pattern.split(version), the pattern
\* ([\W_]+) having a group: components and the separators between them
RECURSIVE separator_split(_)
separator_split(s) ==
    LET word == run(s, FALSE)
        rest == SubSeq(s, word + 1, Len(s))
        seps == run(rest, TRUE)
    IN  IF word = Len(s) THEN <<s>>
        ELSE <<SubSeq(s, 1, word), SubSeq(rest, 1, seps)>>
                 \o separator_split(SubSeq(rest, seps + 1, Len(rest)))

\* ''.join(components)
RECURSIVE join(_)
join(components) ==
    IF components = <<>> THEN <<>> ELSE Head(components) \o join(Tail(components))

\* list[:-2]
but_last_two(list) == SubSeq(list, 1, Len(list) - 2)

\* normalization.py:84-92 : _find_optimal_format_for_version
find_optimal_format_for_version(v) ==
    IF v = <<>> THEN v
    ELSE LET split_v == separator_split(v)
             components == IF split_v[Len(split_v)] # <<>> THEN split_v
                           ELSE but_last_two(split_v)
         IN  IF Len(components) \div 2 < 2 THEN join(components)
             ELSE join(but_last_two(components))

\* normalization.py:44-60 : _normalize_version up to self._version_uncut
version_uncut(raw) ==
    IF raw = <<>> THEN raw
    ELSE LET hyphen_chunks == rsplit(raw, "-")
             v1 == IF Len(strip(hyphen_chunks[1])) > 1 THEN hyphen_chunks[1]
                   ELSE hyphen_chunks[Len(hyphen_chunks)]
             v2 == lstrip(v1, {"+", " ", "~"})
             v3 == rsplit(v2, "~")[1]
             v4 == rsplit(v3, "+")[1]
             v5 == rstrip(v4, {":", " "})
             v6 == LET chunks == split(v5, ":") IN chunks[Len(chunks)]
         IN  strip(v6)

\* normalization.py:44-64 : _normalize_version, on self._version
normalize_version(raw) == find_optimal_format_for_version(version_uncut(raw))

InitNorm ==
    /\ npc = "raw"
    /\ raw_version \in RawVersions
    /\ version = <<>>
    /\ version_once = <<>>

IdleNorm ==
    /\ npc = "idle"
    /\ raw_version = <<>>
    /\ version = <<>>
    /\ version_once = <<>>

\* normalization.py:10-13, 24-25 : FingerprintNormalizer(fingerprint,
\* patterns).get_normalized(), first of the raw fingerprint and then of the
\* fingerprint it gave
get_normalized ==
    /\ npc \in {"raw", "once"}
    /\ version' = normalize_version(strip(IF npc = "raw" THEN raw_version ELSE version))
    /\ version_once' = IF npc = "raw" THEN version_once ELSE version
    /\ npc' = IF npc = "raw" THEN "once" ELSE "twice"
    /\ UNCHANGED raw_version
    /\ UNCHANGED notNorm

NextNorm == get_normalized

(***************************************************************************)
(* software.py:320-348 : _establish_cpe_identity.  A candidate is a pair   *)
(* (cpe_publisher, cpe_version); cpe_product takes no part in the choice.  *)
(***************************************************************************)
PublisherNames == {"Acme", "Acme Corp"}

CpePublishers == {"acme", "acme_corp", "other"}

CpeVersions == {<<>>, <<"1">>, <<"1", ".", "1">>, <<"1", ".", "2">>}

RECURSIVE ListsUpTo(_, _)
ListsUpTo(S, n) ==
    IF n = 0 THEN {<<>>}
    ELSE LET shorter == ListsUpTo(S, n - 1)
         IN  shorter \cup {Append(l, x) : l \in {k \in shorter : Len(k) = n - 1}, x \in S}

\* str.lower() of a publisher name
lower(name) ==
    CASE name = "Acme" -> "acme"
      [] name = "Acme Corp" -> "acme corp"

\* cpe_publisher.replace('_', ' ')
cpe_publisher_readable(cpe_publisher) ==
    CASE cpe_publisher = "acme_corp" -> "acme corp"
      [] OTHER -> cpe_publisher

\* software.py:323-324 : version_parts_pattern.findall, the runs of
\* characters that are letters or digits
RECURSIVE findall_parts(_)
findall_parts(s) ==
    LET skipped == SubSeq(s, run(s, TRUE) + 1, Len(s))
        word == run(skipped, FALSE)
    IN  IF word = 0 THEN <<>>
        ELSE <<SubSeq(skipped, 1, word)>>
                 \o findall_parts(SubSeq(skipped, word + 1, Len(skipped)))

\* software.py:329 : the publisher of the candidate is a known publisher name
publisher_matches(record) ==
    cpe_publisher_readable(record[1]) \in {lower(name) : name \in publisher_names}

\* software.py:332-336 : the parts of self.version are a prefix of those of
\* the candidate's version
version_prefix_matches(record) ==
    LET version_parts == findall_parts(resolved_version)
        cpe_version_parts == findall_parts(record[2])
    IN  /\ version_parts # <<>>
        /\ cpe_version_parts # <<>>
        /\ version_parts = SubSeq(cpe_version_parts, 1,
                                  IF Len(version_parts) < Len(cpe_version_parts)
                                  THEN Len(version_parts) ELSE Len(cpe_version_parts))

\* software.py:327-337 : the loop breaks at the first candidate that matches
\* in either way
first_match(candidates) ==
    IF \E i \in 1..Len(candidates) :
           publisher_matches(candidates[i]) \/ version_prefix_matches(candidates[i])
    THEN CHOOSE i \in 1..Len(candidates) :
           /\ publisher_matches(candidates[i]) \/ version_prefix_matches(candidates[i])
           /\ \A j \in 1..(i - 1) :
                ~(publisher_matches(candidates[j]) \/ version_prefix_matches(candidates[j]))
    ELSE 0

InitCpe ==
    /\ cpc = "records"
    /\ publisher_names \in (SUBSET PublisherNames) \ {{}}
    /\ resolved_version \in CpeVersions
    /\ records \in ListsUpTo(CpePublishers \X CpeVersions, MaxRecords)
    /\ matched = 0
    /\ cpe_string = None

IdleCpe ==
    /\ cpc = "idle"
    /\ publisher_names = {}
    /\ resolved_version = <<>>
    /\ records = <<>>
    /\ matched = 0
    /\ cpe_string = None

establish_cpe_identity ==
    /\ cpc = "records"
    /\ matched' = first_match(records)
    /\ cpe_string' = IF first_match(records) = 0 THEN None
                     ELSE records[first_match(records)][1]
    /\ cpc' = "done"
    /\ UNCHANGED <<publisher_names, resolved_version, records>>
    /\ UNCHANGED notCpe

NextCpe == establish_cpe_identity

(***************************************************************************)
(* reposcan/projects_base.py : the tag search of a Git project.  A tag is  *)
(* a pair: what the version patterns say of its name ("none": the general  *)
(* pattern does not match, "exact": the exact pattern matches, "general":  *)
(* only the general pattern matches), and the tail, the text of the name   *)
(* behind the match, as a sequence of characters.                          *)
(***************************************************************************)
Tails == {<<"2">>, <<"1", "0">>, <<"b", "e", "t", "a", "1">>,
          <<".", "2">>, <<".", "1", "0">>}

Tags == {<<"none", <<>>>>, <<"exact", <<>>>>} \cup {<<"general", tail>> : tail \in Tails}

\* projects.py:59 : _version_separators of a GitHub or GitLab project, which
\* are those of pattern_strict.separator (projects_base.py:161)
version_separators == {".", "-", "_"}

\* projects_base.py:304 : re.search(fr'[ab]|{suffix_base}', item.tail) is None
stable(tail) ==
    /\ \A i \in 1..Len(tail) : tail[i] \notin {"a", "b", "α", "β"}
    /\ \A i \in 1..(Len(tail) - 1) : ~(tail[i] = "r" /\ tail[i + 1] = "c")

\* the number of digits s begins with
RECURSIVE digits_run(_)
digits_run(s) ==
    IF s = <<>> \/ ~digit(Head(s)) THEN 0 ELSE 1 + digits_run(Tail(s))

\* int() of a sequence of digits
RECURSIVE int(_)
int(ds) ==
    IF ds = <<>> THEN 0
    ELSE 10 * int(SubSeq(ds, 1, Len(ds) - 1))
           + (CHOOSE d \in 1..Len(Digits) : Digits[d] = ds[Len(ds)]) - 1

\* projects_base.py:331 : what \d+(?:{separator}\d+)* matches at the head of
\* s, which begins with a digit: the runs of digits between the separators
RECURSIVE number_groups(_)
number_groups(s) ==
    LET first == SubSeq(s, 1, digits_run(s))
        rest == SubSeq(s, digits_run(s) + 1, Len(s))
    IN  IF Len(rest) >= 2 /\ rest[1] \in version_separators /\ digit(rest[2])
        THEN <<first>> \o number_groups(Tail(rest))
        ELSE <<first>>

\* projects_base.py:329-336 : _digital_tail_value.  kind is "None" when no
\* digit stands behind a separator, "float" when float() reads the number
\* (one run of digits, or two joined by "."), "ValueError" when the number
\* found has three runs of digits or more: float("1.2.3") raises.  A float
\* is kept as its whole part and the digits of its fraction.
digital_tail_value(tail) ==
    IF \A i \in 2..Len(tail) : ~(tail[i - 1] \in version_separators /\ digit(tail[i]))
    THEN [kind |-> "None", whole |-> 0, fraction |-> <<>>]
    ELSE LET start == CHOOSE i \in 2..Len(tail) :
                        /\ tail[i - 1] \in version_separators /\ digit(tail[i])
                        /\ \A j \in 2..(i - 1) :
                             ~(tail[j - 1] \in version_separators /\ digit(tail[j]))
             groups == number_groups(SubSeq(tail, start, Len(tail)))
         IN  IF Len(groups) = 1
             THEN [kind |-> "float", whole |-> int(groups[1]), fraction |-> <<>>]
             ELSE IF Len(groups) = 2
             THEN [kind |-> "float", whole |-> int(groups[1]), fraction |-> groups[2]]
             ELSE [kind |-> "ValueError", whole |-> 0, fraction |-> <<>>]

\* 0.f < 0.g for the digits f and g of two fractions
RECURSIVE fraction_less(_, _)
fraction_less(f, g) ==
    IF f = <<>> /\ g = <<>> THEN FALSE
    ELSE LET a == IF f = <<>> THEN 0 ELSE int(<<Head(f)>>)
             b == IF g = <<>> THEN 0 ELSE int(<<Head(g)>>)
         IN  IF a # b THEN a < b
             ELSE fraction_less(IF f = <<>> THEN f ELSE Tail(f),
                                IF g = <<>> THEN g ELSE Tail(g))

\* projects_base.py:313 : item.value < current.value, of two floats
float_less(v, w) ==
    \/ v.whole < w.whole
    \/ v.whole = w.whole /\ fraction_less(v.fraction, w.fraction)

\* projects_base.py:305-309 : the stable items whose tail holds a digit are
\* measured, one after the other
digital_measured(tails) ==
    {i \in 1..Len(tails) : stable(tails[i]) /\ \E j \in 1..Len(tails[i]) : digit(tails[i][j])}

\* projects_base.py:306-309 : the measure of one of the items raises
get_best_match_raises(tails) ==
    \E i \in digital_measured(tails) : digital_tail_value(tails[i]).kind = "ValueError"

\* projects_base.py:299-319 without the measure of lines 306-316: the first
\* stable item, or else the first item
get_best_matchFirstStable(tails) ==
    LET stable_items == {i \in 1..Len(tails) : stable(tails[i])}
    IN  IF stable_items # {} THEN CHOOSE i \in stable_items : \A j \in stable_items : i <= j
        ELSE 1

\* projects_base.py:299-319 : _get_best_match on the tails of the matching
\* items, when no measure raises; the index of the item taken.
\* reduce(minimizer, ...) keeps the first of the items of least value.
get_best_match(tails) ==
    LET stable_items == {i \in 1..Len(tails) : stable(tails[i])}
        digital_with_value ==
            {i \in digital_measured(tails) : digital_tail_value(tails[i]).kind = "float"}
        least(S) == CHOOSE i \in S : \A j \in S : i <= j
    IN  IF digital_with_value # {}
        THEN least({i \in digital_with_value :
                      \A j \in digital_with_value :
                          ~float_less(digital_tail_value(tails[j]),
                                      digital_tail_value(tails[i]))})
        ELSE IF stable_items # {} THEN least(stable_items) ELSE 1

\* the indices in tags of the tags of page p: per_page tags each
page_of(p) == {i \in 1..Len(tags) : (p - 1) * per_page < i /\ i <= p * per_page}

\* the k-th smallest index of a set of indices
RECURSIVE nth(_, _)
nth(S, k) ==
    LET first == CHOOSE i \in S : \A j \in S : i <= j
    IN  IF k = 1 THEN first ELSE nth(S \ {first}, k - 1)

\* projects_base.py:385-410 : _match_tag_with_version on the tags of page p
\* (is_date false); the index in tags of the tag returned, 0 for None
match_tag_with_version(p) ==
    LET general == {i \in page_of(p) : tags[i][1] \in {"general", "exact"}}
        exact == {i \in general : tags[i][1] = "exact"}
        first_exact == CHOOSE i \in exact : \A j \in exact : i <= j
        \* the loop returns at the first exact match; without one, the
        \* matching tags are all the general matches of the page
        matching_tags == general
    IN  IF exact # {} THEN first_exact
        ELSE IF matching_tags = {} THEN 0
        ELSE nth(matching_tags,
                 get_best_match([k \in 1..Cardinality(matching_tags) |->
                                    tags[nth(matching_tags, k)][2]]))

InitTags ==
    /\ tpc = "page"
    /\ tags \in ListsUpTo(Tags, MaxTags)
    /\ page_number = 1
    /\ tag_with_version = 0
    /\ requests = 0
    /\ tags_lock = FALSE

IdleTags ==
    /\ tpc = "idle"
    /\ tags = <<>>
    /\ page_number = 1
    /\ tag_with_version = 0
    /\ requests = 0
    /\ tags_lock = FALSE

\* projects_base.py:368-375 : a turn of the loop of _fetch_tag_with_version
\* begins: the lock of the platform is entered and the page is requested
request_tags_page ==
    /\ tpc = "page"
    /\ tags_lock' = TRUE
    /\ requests' = requests + 1
    /\ tpc' = "response"
    /\ UNCHANGED <<tags, page_number, tag_with_version>>
    /\ UNCHANGED notTags

\* projects_base.py:375-382 without "or not tags" of line 379: an empty page is
\* handed to _match_tag_with_version like any other
fetch_tags_pageKeepsAsking ==
    /\ tpc = "response"
    /\ tags_lock' = FALSE
    /\ \/ \E failure \in {"ResponseError", "not a list"} :
            /\ tpc' = "done"
            /\ UNCHANGED <<page_number, tag_with_version>>
       \/ /\ match_tag_with_version(page_number) # 0
          /\ tag_with_version' = match_tag_with_version(page_number)
          /\ tpc' = "done"
          /\ UNCHANGED page_number
       \/ /\ match_tag_with_version(page_number) = 0
          /\ page_number' = page_number + 1
          /\ tpc' = "page"
          /\ UNCHANGED tag_with_version
    /\ UNCHANGED <<tags, requests>>
    /\ UNCHANGED notTags

\* projects_base.py:375-382 : the turn ends, the block of the lock is left.
\* The request fails (ResponseError), or the payload is no list, or the page
\* is empty: None.  A match on the page is returned; without one the next
\* page is asked for.
fetch_tags_page ==
    /\ tpc = "response"
    /\ tags_lock' = FALSE
    /\ \/ \E failure \in {"ResponseError", "not a list"} :
            /\ tpc' = "done"
            /\ UNCHANGED <<page_number, tag_with_version>>
       \/ /\ page_of(page_number) = {}
          /\ tpc' = "done"
          /\ UNCHANGED <<page_number, tag_with_version>>
       \/ /\ page_of(page_number) # {}
          /\ match_tag_with_version(page_number) # 0
          /\ tag_with_version' = match_tag_with_version(page_number)
          /\ tpc' = "done"
          /\ UNCHANGED page_number
       \/ /\ page_of(page_number) # {}
          /\ match_tag_with_version(page_number) = 0
          /\ page_number' = page_number + 1
          /\ tpc' = "page"
          /\ UNCHANGED tag_with_version
    /\ UNCHANGED <<tags, requests>>
    /\ UNCHANGED notTags

NextTags ==
    \/ request_tags_page
    \/ fetch_tags_page

(***************************************************************************)
(* reposcan/projects_base.py:152-193 : _get_version_info of a version      *)
(* without suffix, and the search of its patterns in a name.  A pattern    *)
(* is not compiled: search is computed on the name, as the set of the      *)
(* positions (the index of the next character) where a part of the         *)
(* pattern can end.  The names are in lower case (re.IGNORECASE).          *)
(***************************************************************************)
NameChars == {"v", "4", "2", "0", "1", ".", "β"}

ReleaseNames == UNION {[1..n -> NameChars] : n \in 0..MaxNameLen}

Versions == {<<"4", ".", "4", ".", "0">>, <<"2", ".", "0", ".", "0">>, <<"2">>}

\* projects_base.py:162-163 : re.findall(info.parts_pattern, version), the
\* runs of characters that are neither a version separator nor white space
RECURSIVE findall_version_parts(_)
findall_version_parts(s) ==
    LET part_char(c) == c \notin version_separators \cup {" "}
        first == IF \E i \in 1..Len(s) : part_char(s[i])
                 THEN CHOOSE i \in 1..Len(s) :
                        part_char(s[i]) /\ \A j \in 1..(i - 1) : ~part_char(s[j])
                 ELSE 0
        last == CHOOSE i \in first..Len(s) :
                  /\ \A j \in first..i : part_char(s[j])
                  /\ i = Len(s) \/ ~part_char(s[i + 1])
    IN  IF first = 0 THEN <<>>
        ELSE <<SubSeq(s, first, last)>> \o findall_version_parts(SubSeq(s, last + 1, Len(s)))

\* projects_base.py:165-171 with every part taken for significant
significant_partsUntrimmed(parts) == parts

\* projects_base.py:165-171 : the parts up to the last one that is not all
\* zeros; the first two parts when that one is the first (or there is none)
significant_parts(parts) ==
    LET not_zero == {j \in 1..Len(parts) : \E i \in 1..Len(parts[j]) : parts[j][i] # "0"}
        last_significant_index ==
            IF not_zero = {} THEN Len(parts)
            ELSE CHOOSE j \in not_zero : \A k \in not_zero : k <= j
    IN  IF last_significant_index > 1 THEN SubSeq(parts, 1, last_significant_index)
        ELSE SubSeq(parts, 1, IF Len(parts) < 2 THEN Len(parts) ELSE 2)

\* one character of chars, or with optional: at most one
one_of(s, P, chars, optional) ==
    {p + 1 : p \in {q \in P : q <= Len(s) /\ s[q] \in chars}} \cup (IF optional THEN P ELSE {})

\* re.escape(p) : the characters of lit
literal(s, P, lit) ==
    {p + Len(lit) : p \in {q \in P : q + Len(lit) - 1 <= Len(s)
                                     /\ SubSeq(s, q, q + Len(lit) - 1) = lit}}

\* projects_base.py:160 : separator, \s?[...]\s?
separator_ends(s, P) ==
    one_of(s, one_of(s, one_of(s, P, {" "}, TRUE), version_separators, FALSE), {" "}, TRUE)

\* separator.join(parts)
RECURSIVE joined(_, _, _)
joined(s, P, parts) ==
    IF parts = <<>> THEN P
    ELSE IF Len(parts) = 1 THEN literal(s, P, parts[1])
    ELSE joined(s, separator_ends(s, literal(s, P, parts[1])), Tail(parts))

\* projects_base.py:172 : general, (?:^|\s)v?<parts>(?![^\D0])
general_ends(s, parts) ==
    LET begin == {p \in 1..(Len(s) + 1) : p = 1 \/ s[p - 1] = " "}
    IN  {p \in joined(s, one_of(s, begin, {"v"}, TRUE), parts) :
           p > Len(s) \/ ~(digit(s[p]) /\ s[p] # "0")}

\* (?:{separator}0+)* : any number of groups of zeros behind a separator
RECURSIVE zero_groups(_, _)
zero_groups(s, P) ==
    LET more == P \cup {q \in 1..(Len(s) + 1) :
                          \E p \in separator_ends(s, P) :
                              p < q /\ \A i \in p..(q - 1) : s[i] = "0"}
    IN  IF more = P THEN P ELSE zero_groups(s, more)

\* \b at position p
boundary(s, p) ==
    LET word(i) == i \in 1..Len(s) /\ (alnum(s[i]) \/ s[i] = "_")
    IN  word(p - 1) # word(p)

\* typestore/datatypes.py:104 : DevelopmentSuffix.base
suffix_bases == {<<"r", "c">>, <<"α">>, <<"α", "l", "p", "h", "a">>, <<"β">>,
                 <<"β", "e", "t", "a">>, <<"a", "l", "p", "h", "a">>,
                 <<"b", "e", "t", "a">>}

\* \d* or, with some, \d+
digits_ends(s, P, some) ==
    {q \in 1..(Len(s) + 1) :
       \E p \in P : p <= q /\ (some => p < q) /\ \A i \in p..(q - 1) : digit(s[i])}

\* typestore/datatypes.py:106 : DevelopmentSuffix.pattern matches at p
suffix_at(s, p) ==
    LET base_ends == UNION {literal(s, digits_ends(s, {p}, FALSE), base) : base \in suffix_bases}
        ends == base_ends \cup digits_ends(s, one_of(s, base_ends, {"_"}, TRUE), TRUE)
    IN  boundary(s, p) /\ \E r \in ends : boundary(s, r)

\* projects_base.py:181 : exact of a version without suffix,
\* {general}(?:{separator}0+)*(?=$|[\W_\s]+(?!\d|{suffix_pattern}))
exact_ends(s, parts) ==
    {p \in zero_groups(s, general_ends(s, parts)) :
       \/ p = Len(s) + 1
       \/ \E q \in (p + 1)..(Len(s) + 1) :
            /\ \A i \in p..(q - 1) : ~alnum(s[i])
            /\ ~(q <= Len(s) /\ digit(s[q]))
            /\ ~suffix_at(s, q)}

\* pattern.exact.search(name) is not None, for the pattern of version
exact_search(name, version_string) ==
    exact_ends(name, significant_parts(findall_version_parts(version_string))) # {}

InitVer ==
    /\ vpc = "version"
    /\ version_name \in Versions
    /\ release_name \in ReleaseNames
    /\ significant = <<>>
    /\ general_match = FALSE
    /\ exact_match = FALSE

IdleVer ==
    /\ vpc = "idle"
    /\ version_name = <<>>
    /\ release_name = <<>>
    /\ significant = <<>>
    /\ general_match = FALSE
    /\ exact_match = FALSE

\* projects_base.py:152-193 : _get_version_info
get_version_info ==
    /\ vpc = "version"
    /\ significant' = significant_parts(findall_version_parts(version_name))
    /\ vpc' = "pattern"
    /\ UNCHANGED <<version_name, release_name, general_match, exact_match>>
    /\ UNCHANGED notVer

\* projects_base.py:393, 402 : the searches of the two patterns in a name
pattern_search ==
    /\ vpc = "pattern"
    /\ general_match' = (general_ends(release_name, significant) # {})
    /\ exact_match' = (exact_ends(release_name, significant) # {})
    /\ vpc' = "searched"
    /\ UNCHANGED <<version_name, release_name, significant>>
    /\ UNCHANGED notVer

NextVer ==
    \/ get_version_info
    \/ pattern_search

(***************************************************************************)
(* reposcan/dateparse.py:32-90 : parse_date of a text with a year.  A text *)
(* is given by what extract_date_like (93-145) finds in it: nothing        *)
(* ("none"), the digital pattern (two numbers of one or two digits and a   *)
(* year, delimiter between them; not ordered), the word-month pattern      *)
(* (month of a name, day of one or two digits; ordered), or six digits     *)
(* (year and one number of two digits; ordered).  -1 stands for None.      *)
(***************************************************************************)
Years == {2020, 2021}

NonYears == {0, 2, 12, 13, 31}

DateLikes ==
    {[kind |-> "none", year |-> 0, non_year_0 |-> 0, non_year_1 |-> -1, delimiter |-> ""]}
    \cup [kind : {"digital"}, year : Years, non_year_0 : NonYears, non_year_1 : NonYears,
          delimiter : {"/", "-", "."}]
    \cup [kind : {"word_month"}, year : Years, non_year_0 : {2, 4, 12}, non_year_1 : NonYears,
          delimiter : {" "}]
    \cup [kind : {"no_separator"}, year : Years, non_year_0 : NonYears, non_year_1 : {-1},
          delimiter : {""}]

\* what extract_date_like finds in a reference string, its year left out
References ==
    {dl \in DateLikes : dl.kind \in {"none", "digital", "no_separator"}
                        /\ dl.year \in {0, 2020} /\ dl.delimiter \in {"", "/"}}

\* dateparse.py:143-144 : ordered
ordered(dl) == dl.kind \in {"word_month", "no_separator"}

\* calendar.monthrange(year, month)[1], for a month of 1..12
monthrange(year, month) ==
    CASE month = 2 -> IF year % 4 = 0 /\ (year % 100 # 0 \/ year % 400 = 0) THEN 29 ELSE 28
      [] month \in {4, 6, 9, 11} -> 30
      [] OTHER -> 31

\* dateparse.py:60-63, 78-81, 89-90 : the Date of a day and a month, or None
checked_date(year, month, day) ==
    IF ~(1 <= month /\ month <= 12) \/ day > monthrange(year, month) THEN <<>>
    ELSE <<year, month, day>>

\* dateparse.py:68-73 : one turn of the loop over the reference strings, for
\* the non-year parts of the text: the exception it raises, or the
\* day_index it leaves
reference_turn(non_year_parts, reference) ==
    LET parts == <<reference.non_year_0, reference.non_year_1>>
        \* the first part the generator stops at: one above 12, or None
        stop == IF parts[1] > 12 \/ parts[1] = -1 THEN 1
                ELSE IF parts[2] > 12 \/ parts[2] = -1 THEN 2 ELSE 0
    IN  IF reference.kind = "none" THEN [exc |-> "AttributeError", day_index |-> -1]
        ELSE IF stop = 0 THEN [exc |-> None, day_index |-> -1]
        ELSE IF parts[stop] = -1 THEN [exc |-> "TypeError", day_index |-> -1]
        ELSE IF parts[stop] = non_year_parts[1] THEN [exc |-> None, day_index |-> 0]
        ELSE IF parts[stop] = non_year_parts[2] THEN [exc |-> None, day_index |-> 1]
        ELSE [exc |-> "ValueError", day_index |-> -1]

\* dateparse.py:64-75 : the loop; it ends at an exception or at a day_index
\* that is true, and else leaves the day_index of its last turn
RECURSIVE scan_references(_, _, _)
scan_references(non_year_parts, references, day_index) ==
    IF references = <<>> THEN [exc |-> None, day_index |-> day_index]
    ELSE LET turn == reference_turn(non_year_parts, Head(references))
         IN  IF turn.exc # None \/ turn.day_index > 0 THEN turn
             ELSE scan_references(non_year_parts, Tail(references), turn.day_index)

\* dateparse.py:39-90 : parse_date(text, patterns, reference_collection):
\* the Date returned and the exception raised
parse_date_of(dl, references) ==
    LET non_year_parts == <<dl.non_year_0, dl.non_year_1>>
        scan == scan_references(non_year_parts, references, -1)
        returns(d) == [date |-> d, exc |-> None]
    IN  IF dl.kind = "none" THEN returns(<<>>)
        ELSE IF ordered(dl)
        THEN returns(<<dl.year, dl.non_year_0,
                       IF dl.non_year_1 # -1 THEN dl.non_year_1 ELSE 1>>)
        ELSE IF non_year_parts[1] > 12
        THEN returns(checked_date(dl.year, non_year_parts[2], non_year_parts[1]))
        ELSE IF non_year_parts[2] > 12
        THEN returns(checked_date(dl.year, non_year_parts[1], non_year_parts[2]))
        ELSE IF scan.exc # None THEN [date |-> <<>>, exc |-> scan.exc]
        ELSE IF scan.day_index = 1 THEN [date |-> <<>>, exc |-> "IndexError"]
        ELSE IF scan.day_index = 0
        THEN returns(checked_date(dl.year, non_year_parts[2], non_year_parts[1]))
        ELSE IF dl.delimiter = "/"
        THEN returns(checked_date(dl.year, non_year_parts[2], non_year_parts[1]))
        ELSE IF dl.delimiter = "-"
        THEN returns(checked_date(dl.year, non_year_parts[1], non_year_parts[2]))
        ELSE returns(<<>>)

InitDate ==
    /\ dpc = "text"
    /\ date_like \in DateLikes
    /\ reference_collection \in ListsUpTo(References, MaxReferences)
    /\ date = <<>>
    /\ date_exception = None

IdleDate ==
    /\ dpc = "idle"
    /\ date_like = [kind |-> "none", year |-> 0, non_year_0 |-> 0, non_year_1 |-> -1,
                    delimiter |-> ""]
    /\ reference_collection = <<>>
    /\ date = <<>>
    /\ date_exception = None

parse_date ==
    /\ dpc = "text"
    /\ date' = parse_date_of(date_like, reference_collection).date
    /\ date_exception' = parse_date_of(date_like, reference_collection).exc
    /\ dpc' = "done"
    /\ UNCHANGED <<date_like, reference_collection>>
    /\ UNCHANGED notDate

NextDate == parse_date

(***************************************************************************)
(* reposcan/projects_base.py:412-475 : _match_date_tag_with_version.  A    *)
(* tag is given by: whether its name holds the year and the month of the   *)
(* version (the pre-filter of line 426), the date parse_date reads in the  *)
(* name, and the tail of the name behind that date.                        *)
(***************************************************************************)
DateTags ==
    [in_name : BOOLEAN,
     date : {<<2020, m, d>> : m \in {2, 3}, d \in {1, 2}},
     tail : {<<>>, <<"-", "r", "c", "1">>}]

\* sub in s
contains(s, sub) == \E p \in 1..(Len(s) + 1) : literal(s, {p}, sub) # {}

\* projects_base.py:466-475 : _is_version_suffix_consistent
is_version_suffix_consistent(suffix, tail) ==
    IF suffix # <<>> THEN contains(tail, suffix)
    ELSE \A base \in suffix_bases : ~contains(tail, base)

\* typestore/datatypes.py:73-76 : Date.is_close_to, same year and month
is_close_to(d, date_obj) == d[1] = date_obj[1] /\ d[2] = date_obj[2]

\* projects_base.py:412-464 without the scores: the first tag that passes
\* the pre-filter and the date comparison
date_tag_matchFirstCandidate(tag_list, version_date, suffix) ==
    LET matching == {i \in 1..Len(tag_list) :
                       tag_list[i].in_name /\ is_close_to(tag_list[i].date, version_date)}
    IN  IF matching = {} THEN 0 ELSE CHOOSE i \in matching : \A j \in matching : i <= j

\* projects_base.py:412-464 : the index of the tag returned, 0 for None.
\* The loop returns the first tag that is fully matching and suffix
\* consistent; without one, next(chain(...)) takes the first fully matching
\* tag, else the first suffix consistent one, else the first.
date_tag_match(tag_list, version_date, suffix) ==
    LET matching == {i \in 1..Len(tag_list) :
                       tag_list[i].in_name /\ is_close_to(tag_list[i].date, version_date)}
        fully_matching == {i \in matching : tag_list[i].date = version_date}
        suffix_consistent ==
            {i \in matching : is_version_suffix_consistent(suffix, tag_list[i].tail)}
        first(S) == CHOOSE i \in S : \A j \in S : i <= j
    IN  IF fully_matching \cap suffix_consistent # {}
        THEN first(fully_matching \cap suffix_consistent)
        ELSE IF fully_matching # {} THEN first(fully_matching)
        ELSE IF suffix_consistent # {} THEN first(suffix_consistent)
        ELSE IF matching # {} THEN first(matching)
        ELSE 0

InitDateTags ==
    /\ gpc = "tags"
    /\ date_in_version = <<2020, 2, 1>>
    /\ version_suffix \in {<<>>, <<"r", "c", "1">>}
    /\ date_tags \in ListsUpTo(DateTags, MaxDateTags)
    /\ date_tag = 0

IdleDateTags ==
    /\ gpc = "idle"
    /\ date_in_version = <<2020, 2, 1>>
    /\ version_suffix = <<>>
    /\ date_tags = <<>>
    /\ date_tag = 0

match_date_tag_with_version ==
    /\ gpc = "tags"
    /\ date_tag' = date_tag_match(date_tags, date_in_version, version_suffix)
    /\ gpc' = "done"
    /\ UNCHANGED <<date_in_version, version_suffix, date_tags>>
    /\ UNCHANGED notDateTags

NextDateTags == match_date_tag_with_version

(***************************************************************************)
(* reposcan/packages.py : initialize() of the package adapters.  A field   *)
(* of the package is "" when empty and a fixed text otherwise.             *)
(***************************************************************************)
Adapters ==
    {"DebianPackage", "UbuntuPackage", "FedoraPackage", "OpenSusePackage",
     "AlpinePackage", "ArchPackage"}

\* packages.py:43-47 : the fields LinuxPackage.__init__ leaves empty
EmptyPackage ==
    [name |-> "", homepage |-> "", description |-> "", license |-> "", package_url |-> ""]

\* packages.py:663-675 : what UniversalPackage.initialize leaves in the
\* universal package: nothing when fetch_package_info gives None, else the
\* fields of the row, each of them possibly empty
UniversalPackages ==
    {EmptyPackage} \cup
    [name : {"name"}, homepage : {"", "homepage"}, description : {"", "description"},
     license : {"", "license"}, package_url : {"", "package_url"}]

InitPkg ==
    /\ kpc = "initialize"
    /\ adapter \in Adapters
    /\ fetch_flags \in (BOOLEAN \X BOOLEAN)
    /\ universal_attempt = "none"
    /\ package_data = EmptyPackage
    /\ distro_lookups = {}

IdlePkg ==
    /\ kpc = "idle"
    /\ adapter = "DebianPackage"
    /\ fetch_flags = <<FALSE, FALSE>>
    /\ universal_attempt = "none"
    /\ package_data = EmptyPackage
    /\ distro_lookups = {}

\* packages.py:74-77 : the adapter builds the UniversalPackage and awaits
\* its initialize(); first statement of initialize() of every adapter but
\* AlpinePackage (180, 301, 351, 464, 609)
get_data_for_universal_package ==
    /\ kpc = "initialize"
    /\ adapter # "AlpinePackage"
    /\ universal_attempt' = "started"
    /\ kpc' = "universal"
    /\ UNCHANGED <<adapter, fetch_flags, package_data, distro_lookups>>
    /\ UNCHANGED notPkg

\* packages.py:663-675 and 78-85 : the lookup in the cross-distro dataset
\* ends, its fields are taken over when it has a homepage, and
\* initialize() returns or goes on with the distro's own sources
UniversalPackage_initialize ==
    /\ kpc = "universal"
    /\ \E universal_package \in UniversalPackages :
         LET homepage == IF universal_package.homepage # ""
                         THEN universal_package.homepage
                         ELSE universal_package.package_url
             taken == [name |-> universal_package.name, homepage |-> homepage,
                       description |-> universal_package.description,
                       license |-> universal_package.license,
                       package_url |-> homepage]
         IN  /\ package_data' = IF homepage # "" THEN taken ELSE package_data
             /\ kpc' = IF homepage = "" THEN "distro"
                       ELSE IF /\ adapter = "DebianPackage"
                               /\ (taken.description = "" \/ taken.license = "")
                            THEN "load_remaining_data"
                            ELSE "done"
    /\ universal_attempt' = "finished"
    /\ UNCHANGED <<adapter, fetch_flags, distro_lookups>>
    /\ UNCHANGED notPkg

\* packages.py:185-205, 304-325 : UDD, then the archived tables of UDD when
\* the first gives no source package
udd_get_homepage(after) ==
    \E found \in {"udd", "archived_udd", "nowhere"}, homepage \in {"", "homepage"} :
      /\ distro_lookups' = distro_lookups \cup
                             (IF found = "udd" THEN {"udd"} ELSE {"udd", "archived_udd"})
      /\ package_data' = [package_data EXCEPT
                       !.name = IF found = "nowhere" THEN "" ELSE "name",
                       !.homepage = homepage,
                       !.package_url = IF found = "nowhere" THEN @
                                       ELSE IF homepage # "" THEN homepage
                                       ELSE IF adapter = "UbuntuPackage" THEN "package_url"
                                       ELSE @]
      /\ kpc' = IF found = "nowhere" THEN "done" ELSE after

\* packages.py:179-209
DebianPackage_initialize ==
    /\ kpc = "distro"
    /\ adapter = "DebianPackage"
    /\ udd_get_homepage("load_remaining_data")
    /\ UNCHANGED <<adapter, fetch_flags, universal_attempt>>
    /\ UNCHANGED notPkg

\* packages.py:211-218 : DebianPackage._load_remaining_data
load_remaining_data ==
    /\ kpc = "load_remaining_data"
    /\ IF package_data.package_url # "" /\ ~fetch_flags[1] /\ ~fetch_flags[2]
       THEN UNCHANGED <<package_data, distro_lookups>>
       ELSE \E url \in {"", "package_url"}, license \in {"", "license"},
               description \in {"", "description"} :
              /\ distro_lookups' = distro_lookups \cup {"sources.debian.org"}
              /\ package_data' = [package_data EXCEPT
                               !.package_url = IF @ = "" THEN url ELSE @,
                               !.license = IF fetch_flags[1] /\ license # "" THEN license ELSE @,
                               !.description = IF fetch_flags[2] THEN description ELSE @]
    /\ kpc' = "done"
    /\ UNCHANGED <<adapter, fetch_flags, universal_attempt>>
    /\ UNCHANGED notPkg

\* packages.py:300-326
UbuntuPackage_initialize ==
    /\ kpc = "distro"
    /\ adapter = "UbuntuPackage"
    /\ udd_get_homepage("done")
    /\ UNCHANGED <<adapter, fetch_flags, universal_attempt>>
    /\ UNCHANGED notPkg

\* packages.py:350-362, 463-475 : the spec file of the package is looked
\* for, fetched and parsed; any of the three may give nothing
spec_file_lookup ==
    /\ distro_lookups' = distro_lookups \cup {"spec_file"}
    /\ \E parsed \in {EmptyPackage} \cup
                     [name : {"", "name"}, homepage : {"", "homepage"},
                      description : {"", "description"}, license : {"", "license"},
                      package_url : {""}] :
         package_data' = [parsed EXCEPT !.package_url = parsed.homepage]
    /\ kpc' = "done"

\* packages.py:350-362
FedoraPackage_initialize ==
    /\ kpc = "distro"
    /\ adapter = "FedoraPackage"
    /\ spec_file_lookup
    /\ UNCHANGED <<adapter, fetch_flags, universal_attempt>>
    /\ UNCHANGED notPkg

\* packages.py:463-475
OpenSusePackage_initialize ==
    /\ kpc = "distro"
    /\ adapter = "OpenSusePackage"
    /\ spec_file_lookup
    /\ UNCHANGED <<adapter, fetch_flags, universal_attempt>>
    /\ UNCHANGED notPkg

\* packages.py:580-592 : the whole of AlpinePackage.initialize, the query
\* of the table of Alpine packages
AlpinePackage_initialize ==
    /\ kpc = "initialize"
    /\ adapter = "AlpinePackage"
    /\ distro_lookups' = distro_lookups \cup {"alpine_packages"}
    /\ \E package_info \in {EmptyPackage} \cup
                     [name : {"name"}, homepage : {"", "homepage"},
                      description : {"", "description"}, license : {"", "license"},
                      package_url : {""}] :
         package_data' = [package_info EXCEPT !.package_url = package_info.homepage]
    /\ kpc' = "done"
    /\ UNCHANGED <<adapter, fetch_flags, universal_attempt>>
    /\ UNCHANGED notPkg

\* packages.py:608-626 : the query of archlinux.org and the details of the
\* package chosen among its results
ArchPackage_initialize ==
    /\ kpc = "distro"
    /\ adapter = "ArchPackage"
    /\ distro_lookups' = distro_lookups \cup {"archlinux.org"}
    /\ \/ UNCHANGED package_data
       \/ \E homepage \in {"", "homepage"}, description \in {"", "description"} :
            package_data' = [name |-> "name", homepage |-> homepage,
                        description |-> description, license |-> "",
                        package_url |-> IF homepage # "" THEN homepage ELSE "package_url"]
    /\ kpc' = "done"
    /\ UNCHANGED <<adapter, fetch_flags, universal_attempt>>
    /\ UNCHANGED notPkg

NextPkg ==
    \/ get_data_for_universal_package
    \/ UniversalPackage_initialize
    \/ DebianPackage_initialize
    \/ load_remaining_data
    \/ UbuntuPackage_initialize
    \/ FedoraPackage_initialize
    \/ OpenSusePackage_initialize
    \/ AlpinePackage_initialize
    \/ ArchPackage_initialize

(***************************************************************************)
(* reposcan/projects_base.py:299-319 : _get_best_match on a list of        *)
(* partial matches, each given by its tail: no digit ("-lts"), a bare      *)
(* number, a number behind a separator, a number of two and of three       *)
(* runs of digits, a pre-release marker.                                   *)
(***************************************************************************)
MatchTails ==
    {<<"-", "l", "t", "s">>, <<"2">>, <<"1", "0">>, <<".", "2">>, <<".", "1", "0">>,
     <<".", "2", ".", "9">>, <<".", "2", ".", "1", "0">>,
     <<".", "1", ".", "2", ".", "3">>, <<"b", "e", "t", "a", "1">>}

InitBest ==
    /\ bpc = "items"
    /\ matching_items \in ListsUpTo(MatchTails, MaxMatches) \ {<<>>}
    /\ best_match = 0
    /\ best_match_raised = None

IdleBest ==
    /\ bpc = "idle"
    /\ matching_items = <<>>
    /\ best_match = 0
    /\ best_match_raised = None

\* projects_base.py:409 and 299-319 : _match_tag_with_version ends with
\* _get_best_match(partial_matches), which returns an item or lets the
\* ValueError of float() through
return_best_match ==
    /\ bpc = "items"
    /\ \/ /\ get_best_match_raises(matching_items)
          /\ best_match_raised' = "ValueError"
          /\ UNCHANGED best_match
       \/ /\ ~get_best_match_raises(matching_items)
          /\ best_match' = get_best_match(matching_items)
          /\ UNCHANGED best_match_raised
    /\ bpc' = "done"
    /\ UNCHANGED matching_items
    /\ UNCHANGED notBest

NextBest == return_best_match

(***************************************************************************)
(* reposcan/projects_base.py:195-246 : _fetch_from_changelog from the      *)
(* line of the best match on, when that line holds a date without year     *)
(* (the else branch of line 235).  A Date is <<year, month, day>>, <<>>    *)
(* is None.                                                                *)
(***************************************************************************)
\* dates parse_date(no_year=True) gives: checked against the year 2000 when
\* digital (dateparse.py:238), unchecked with a month name (dateparse.py:233)
NoYearDates == {<<2, 28>>, <<2, 29>>, <<2, 31>>, <<12, 31>>}

\* typestore/datatypes.py:61-66 : Date.check_day_in_month of a date with a year
check_day_in_month(d) ==
    IF d[3] > monthrange(d[1], d[2]) THEN <<>> ELSE d

\* projects_base.py:238-245 : the loop over the lines behind the matched
\* one.  A line with a year sets date.year, an AttributeError when date is
\* None by then; the loop has no break.
RECURSIVE scan_following_lines(_, _, _)
scan_following_lines(lines, d, iso) ==
    IF lines = <<>> THEN [iso_date |-> iso, exc |-> None]
    ELSE IF Head(lines) = 0 THEN scan_following_lines(Tail(lines), d, iso)
    ELSE IF d = <<>> THEN [iso_date |-> iso, exc |-> "AttributeError"]
    ELSE LET checked == check_day_in_month(<<Head(lines), d[2], d[3]>>)
         IN  scan_following_lines(Tail(lines), checked,
                                  IF checked # <<>> THEN checked ELSE iso)

InitLog ==
    /\ hpc = "matched"
    /\ following_lines \in ListsUpTo({0} \cup Years, MaxLines)
    /\ no_year_date \in NoYearDates
    /\ iso_date = <<>>
    /\ changelog_raised = None

IdleLog ==
    /\ hpc = "idle"
    /\ following_lines = <<>>
    /\ no_year_date = <<2, 28>>
    /\ iso_date = <<>>
    /\ changelog_raised = None

\* projects_base.py:226-246 : the date of the matched line, here year-less
fetch_from_changelog ==
    /\ hpc = "matched"
    /\ LET scan == scan_following_lines(following_lines,
                                        <<0, no_year_date[1], no_year_date[2]>>, <<>>)
       IN  \/ /\ scan.exc = None
              /\ iso_date' = scan.iso_date
              /\ UNCHANGED changelog_raised
           \/ /\ scan.exc # None
              /\ changelog_raised' = scan.exc
              /\ UNCHANGED iso_date
    /\ hpc' = "done"
    /\ UNCHANGED <<following_lines, no_year_date>>
    /\ UNCHANGED notLog

NextLog == fetch_from_changelog

(***************************************************************************)
(* The platform locks and the semaphore of the run together, on the way    *)
(* of a fingerprint task through UDD.get_homepage (udd.py:39-78) and       *)
(* GitHubProject.get_release (projects.py:171-220; GitLabProject alike).   *)
(* A task is in a section of code, and in a phase of it: "lock" waiting    *)
(* for the lock of the section, "request" awaiting the request or query    *)
(* inside the block of the lock, "slot" waiting for the semaphore in       *)
(* async_to_thread, "thread" awaiting the job in the thread.               *)
(***************************************************************************)
SyncTasks == 1..NumSyncTasks

\* the sections whose requests stand in `async with self._udd_lock`
UddSections == {"fetch_source_package_name", "get_package_info"}

\* the lock of the section task t is in
lock_for(t) == IF section[t] \in UddSections THEN "udd_lock" ELSE lock_of(project_platform[t])

InitSync ==
    /\ section \in [SyncTasks -> {"fetch_source_package_name", "get_release"}]
    /\ phase = [t \in SyncTasks |->
                  IF section[t] = "get_release" THEN "start" ELSE "lock"]
    \* the platforms are alike, their locks too: the first task's is GitHub
    /\ project_platform \in {f \in [SyncTasks -> {"GitHub", "GitLab"}] : f[1] = "GitHub"}
    /\ tags_page = [t \in SyncTasks |-> 0]
    /\ lock_holder = [l \in Locks |-> 0]
    /\ free_slots = SyncSlots

IdleSync ==
    /\ section = [t \in SyncTasks |-> "idle"]
    /\ phase = [t \in SyncTasks |-> "idle"]
    /\ project_platform = [t \in SyncTasks |-> "GitHub"]
    /\ tags_page = [t \in SyncTasks |-> 0]
    /\ lock_holder = [l \in Locks |-> 0]
    /\ free_slots = SyncSlots

\* `async with lock:` is entered: the lock is free and becomes the task's
enter_lock(t) ==
    /\ phase[t] = "lock"
    /\ lock_holder[lock_for(t)] = 0
    /\ lock_holder' = [lock_holder EXCEPT ![lock_for(t)] = t]

\* the block of `async with lock:` is left by its end only
exit_lockAtEndOnly(l, exc) ==
    IF exc = None THEN [lock_holder EXCEPT ![l] = 0] ELSE lock_holder

\* the block of `async with lock:` is left, by its end (exc is None), by an
\* exception or by a return in an except clause: Lock.__aexit__ releases
exit_lock(l, exc) == [lock_holder EXCEPT ![l] = 0]

\* task t goes on in section s, phase p
goes_to(t, s, p) ==
    /\ section' = [section EXCEPT ![t] = s]
    /\ phase' = [phase EXCEPT ![t] = p]

\* task t waits for a lock or a slot that another task holds
waits(t) ==
    \/ phase[t] = "lock" /\ lock_holder[lock_for(t)] \notin {0, t}
    \/ phase[t] = "slot" /\ free_slots = 0

(***************************************************************************)
(* udd.py:39-78 with 80-93 and core.py:21-50 : UDD.get_homepage.  Both     *)
(* queries stand in `async with self._udd_lock`; query_db first renders    *)
(* the template (rendering.py:49-50, a job through async_to_thread, inside *)
(* the lock) and then runs the query.  A DatabaseError of the first query  *)
(* is caught inside the block, one of the second outside of it.            *)
(***************************************************************************)
UDD_get_homepage(t) ==
    /\ section[t] \in UddSections
    /\ \/ /\ enter_lock(t)
          /\ goes_to(t, section[t], "slot")
       \/ /\ phase[t] = "request"
          /\ \E exc \in {None, "DatabaseError"}, source_package \in BOOLEAN :
               /\ lock_holder' = exit_lock("udd_lock", exc)
               /\ IF section[t] = "fetch_source_package_name" /\ exc = None /\ source_package
                  THEN goes_to(t, "get_package_info", "lock")
                  ELSE goes_to(t, "get_release", "start")
    /\ UNCHANGED <<project_platform, tags_page, free_slots>>
    /\ UNCHANGED notSync

(***************************************************************************)
(* synchronization.py:5-12 : async_to_thread.  The slot is taken when one  *)
(* is free; the job ends, with its value or an exception, and              *)
(* `async with semaphore` gives the slot back.  What follows depends on    *)
(* the caller: the query of query_db (a failed template leaves the block   *)
(* of udd_lock as SQLTemplateError), the end of TextResponse.fetch and of  *)
(* the block of the platform lock (projects.py:205-210), the end of        *)
(* _get_release_from_changelog (projects.py:211).                          *)
(***************************************************************************)
async_to_thread(t) ==
    /\ \/ /\ phase[t] = "slot"
          /\ free_slots > 0
          /\ free_slots' = free_slots - 1
          /\ phase' = [phase EXCEPT ![t] = "thread"]
          /\ UNCHANGED <<section, project_platform, tags_page, lock_holder>>
       \/ /\ phase[t] = "thread"
          /\ free_slots' = free_slots + 1
          /\ \E exc \in {None, "Exception"} :
               IF section[t] \in UddSections
               THEN IF exc = None
                    THEN /\ goes_to(t, section[t], "request")
                         /\ UNCHANGED lock_holder
                    ELSE /\ lock_holder' = exit_lock("udd_lock", "SQLTemplateError")
                         /\ goes_to(t, "get_release", "start")
               ELSE IF section[t] = "get_release_from_changelog"
               THEN /\ lock_holder' = exit_lock(lock_for(t), IF exc = None THEN None
                                                             ELSE "ResponseError")
                    /\ IF exc = None
                       THEN goes_to(t, "fetch_from_changelog", "slot")
                       ELSE goes_to(t, "fetch_tag_with_version", "lock")
               ELSE /\ goes_to(t, "done", "done")
                    /\ UNCHANGED lock_holder
          /\ UNCHANGED <<project_platform, tags_page>>
    /\ UNCHANGED notSync

(***************************************************************************)
(* projects.py:171-183 and 195-210 : get_release.  Without version_info    *)
(* it returns at once; with a changelog the text is requested under the    *)
(* lock of the platform (ResponseError: return None inside the block) and  *)
(* scanned in a thread after the block; else, and without a release from   *)
(* the changelog, the tags are searched.                                   *)
(***************************************************************************)
get_release(t) ==
    /\ \/ /\ section[t] = "get_release"
          /\ \/ goes_to(t, "done", "done")
             \/ goes_to(t, "get_release_from_changelog", "lock")
             \/ goes_to(t, "fetch_tag_with_version", "lock")
          /\ UNCHANGED lock_holder
       \/ /\ section[t] = "get_release_from_changelog"
          /\ \/ /\ enter_lock(t)
                /\ goes_to(t, section[t], "request")
             \/ /\ phase[t] = "request"
                /\ \/ /\ goes_to(t, section[t], "slot")
                      /\ UNCHANGED lock_holder
                   \/ /\ lock_holder' = exit_lock(lock_for(t), "ResponseError")
                      /\ goes_to(t, "fetch_tag_with_version", "lock")
    /\ UNCHANGED <<project_platform, tags_page, free_slots>>
    /\ UNCHANGED notSync

(***************************************************************************)
(* projects_base.py:361-383 : the pages of tags, each requested inside     *)
(* `async with self._lock`; at most MaxPages pages hold tags, and the page *)
(* number is a local of the search, gone when it returns.                  *)
(***************************************************************************)
fetch_pages_of_tags(t) ==
    /\ section[t] = "fetch_tag_with_version"
    /\ \/ /\ enter_lock(t)
          /\ goes_to(t, section[t], "request")
          /\ tags_page' = [tags_page EXCEPT ![t] = tags_page[t] + 1]
       \/ /\ phase[t] = "request"
          /\ \/ /\ lock_holder' = exit_lock(lock_for(t), "ResponseError")
                /\ goes_to(t, "done", "done")
                /\ tags_page' = [tags_page EXCEPT ![t] = 0]
             \/ /\ lock_holder' = exit_lock(lock_for(t), None)
                /\ \/ /\ goes_to(t, "done", "done")
                      /\ tags_page' = [tags_page EXCEPT ![t] = 0]
                   \/ /\ goes_to(t, "get_release_for_tag", "lock")
                      /\ tags_page' = [tags_page EXCEPT ![t] = 0]
                   \/ /\ tags_page[t] <= MaxPages
                      /\ goes_to(t, section[t], "lock")
                      /\ UNCHANGED tags_page
    /\ UNCHANGED <<project_platform, free_slots>>
    /\ UNCHANGED notSync

(***************************************************************************)
(* projects.py:185-196 : _get_release_for_tag, the commit of the tag       *)
(* requested under the lock of the platform.                               *)
(***************************************************************************)
get_release_for_tag(t) ==
    /\ section[t] = "get_release_for_tag"
    /\ \/ /\ enter_lock(t)
          /\ goes_to(t, section[t], "request")
       \/ /\ phase[t] = "request"
          /\ \E exc \in {None, "ResponseError"} :
               /\ lock_holder' = exit_lock(lock_for(t), exc)
          /\ goes_to(t, "done", "done")
    /\ UNCHANGED <<project_platform, tags_page, free_slots>>
    /\ UNCHANGED notSync

\* the steps of task t
SyncStep(t) ==
    \/ UDD_get_homepage(t)
    \/ async_to_thread(t)
    \/ get_release(t)
    \/ fetch_pages_of_tags(t)
    \/ get_release_for_tag(t)

NextSync ==
    \/ \E t \in SyncTasks : UDD_get_homepage(t)
    \/ \E t \in SyncTasks : async_to_thread(t)
    \/ \E t \in SyncTasks : get_release(t)
    \/ \E t \in SyncTasks : fetch_pages_of_tags(t)
    \/ \E t \in SyncTasks : get_release_for_tag(t)

(***************************************************************************)
(* normalization.py:95-99 with typestore/datatypes.py:239-247 :            *)
(* normalize_fingerprints.  The raw fingerprints are of one software and   *)
(* publisher; their versions hold no "9" and no "2", so the date pattern   *)
(* (datatypes.py:281) matches none, _date_in_version is None and           *)
(* _version_is_date False for all of them; and no "git", "svn", ... of     *)
(* repo_pattern (line 54).  A normalized fingerprint is the record of its  *)
(* version, _version_uncut (uncut) and _version_suffix (suffix, <<>>: None). *)
(***************************************************************************)
DedupVersions ==
    {<<"1", ".", "0">>, <<"1", ".", "0", "r", "c", "1">>, <<"1", ".", "0", "-", "1">>,
     <<"1", ".", "1">>, <<"1", ".", "1", ".", "1">>, <<"r", "c", "1">>}

\* typestore/datatypes.py:106 : the matches of DevelopmentSuffix.pattern that
\* start at p, each the start of group 1 and the end of the match
suffix_groups(s, p) ==
    {g \in (p..(Len(s) + 1)) \X (p..(Len(s) + 1)) :
       /\ boundary(s, p)
       /\ g[1] \in digits_ends(s, {p}, FALSE)
       /\ LET base_ends == UNION {literal(s, {g[1]}, base) : base \in suffix_bases}
              ends == base_ends \cup digits_ends(s, one_of(s, base_ends, {"_"}, TRUE), TRUE)
          IN  g[2] \in ends /\ boundary(s, g[2])}

\* suffix_pattern.search(s).group(1) of the leftmost match; <<>> without match
suffix_search(s) ==
    LET starts == {p \in 1..(Len(s) + 1) : suffix_groups(s, p) # {}}
    IN  IF starts = {} THEN <<>>
        ELSE LET p == CHOOSE q \in starts : \A r \in starts : q <= r
                 g == CHOOSE h \in suffix_groups(s, p) : TRUE
             IN  SubSeq(s, g[1], g[2] - 1)

\* str.find(sub), counted from 1; 0 when sub is not in s
find(s, sub) ==
    LET at == {p \in 1..(Len(s) + 1) : literal(s, {p}, sub) # {}}
    IN  IF at = {} THEN 0 ELSE CHOOSE p \in at : \A q \in at : p <= q

\* normalization.py:76-82 : _extract_suffix_from_version, the version cut
\* before the suffix and the suffix
extract_suffix_from_version(uncut) ==
    LET suffix == suffix_search(uncut)
    IN  IF suffix = <<>> THEN [version |-> uncut, suffix |-> <<>>]
        ELSE [version |-> SubSeq(uncut, 1, find(uncut, suffix) - 1), suffix |-> suffix]

\* normalization.py:24-34, 44-64 : FingerprintNormalizer(fp, patterns).get_normalized()
normalized_fingerprint(raw) ==
    LET uncut == version_uncut(strip(raw))
        cut == extract_suffix_from_version(uncut)
    IN  [version |-> find_optimal_format_for_version(cut.version),
         uncut |-> uncut,
         suffix |-> cut.suffix]

\* typestore/datatypes.py:239-247 : Fingerprint.__eq__ and __hash__ of the
\* frozen dataclass, over the fields that are not compare=False
fingerprint_eq(f, g) == f.version = g.version

\* set(list) : the items are added in the order of the list, an item equal
\* to one of the set is not added
RECURSIVE set_of(_)
set_of(list) ==
    IF list = <<>> THEN {}
    ELSE LET before == set_of(SubSeq(list, 1, Len(list) - 1))
             item == list[Len(list)]
         IN  IF \E other \in before : fingerprint_eq(item, other) THEN before
             ELSE before \cup {item}

\* the lists with the items of list in any order
permutations(list) ==
    {[i \in 1..Len(list) |-> list[f[i]]] :
       f \in {g \in [1..Len(list) -> 1..Len(list)] :
                \A i, j \in 1..Len(list) : g[i] = g[j] => i = j}}

InitDedup ==
    /\ upc = "raw"
    /\ raw_versions \in ListsUpTo(DedupVersions, MaxRaw)
    /\ permuted_versions \in permutations(raw_versions)
    /\ unique = {}
    /\ unique_permuted = {}

IdleDedup ==
    /\ upc = "idle"
    /\ raw_versions = <<>>
    /\ permuted_versions = <<>>
    /\ unique = {}
    /\ unique_permuted = {}

\* normalization.py:95-99 : normalize_fingerprints, of the list and of the
\* list in the other order
normalize_fingerprints ==
    /\ upc = "raw"
    /\ unique' = set_of([i \in 1..Len(raw_versions) |->
                            normalized_fingerprint(raw_versions[i])])
    /\ unique_permuted' = set_of([i \in 1..Len(permuted_versions) |->
                                     normalized_fingerprint(permuted_versions[i])])
    /\ upc' = "done"
    /\ UNCHANGED <<raw_versions, permuted_versions>>
    /\ UNCHANGED notDedup

NextDedup == normalize_fingerprints

Next ==
    \/ is_initialized
    \/ init_pool
    \/ create_jinja_environment
    \/ create_vectorstore
    \/ SessionManager
    \/ filter_recognized_fingerprints
    \/ recognize_segment
    \/ \E f \in Fingerprints : SoftwareRecognizer(f)
    \/ \E f \in Fingerprints : TaskRecognize(f)
    \/ gather
    \/ update_recognized_table
    \/ close_sessions
    \/ managed_context_exit

Init == InitRun /\ IdleFetch /\ IdleLock /\ IdleSem /\ IdleOrch /\ IdleNorm /\ IdleCpe /\ IdleTags /\ IdleVer /\ IdleDate /\ IdleDateTags /\ IdlePkg /\ IdleBest /\ IdleLog /\ IdleSync /\ IdleDedup

Spec == Init /\ [][Next]_vars

InitSpecFetch == InitFetch /\ IdleRun /\ IdleLock /\ IdleSem /\ IdleOrch /\ IdleNorm /\ IdleCpe /\ IdleTags /\ IdleVer /\ IdleDate /\ IdleDateTags /\ IdlePkg /\ IdleBest /\ IdleLog /\ IdleSync /\ IdleDedup

SpecFetch == InitSpecFetch /\ [][NextFetch]_vars

InitSpecLock == InitLock /\ IdleRun /\ IdleFetch /\ IdleSem /\ IdleOrch /\ IdleNorm /\ IdleCpe /\ IdleTags /\ IdleVer /\ IdleDate /\ IdleDateTags /\ IdlePkg /\ IdleBest /\ IdleLog /\ IdleSync /\ IdleDedup

SpecLock == InitSpecLock /\ [][NextLock]_vars

InitSpecSem == InitSem /\ IdleRun /\ IdleFetch /\ IdleLock /\ IdleOrch /\ IdleNorm /\ IdleCpe /\ IdleTags /\ IdleVer /\ IdleDate /\ IdleDateTags /\ IdlePkg /\ IdleBest /\ IdleLog /\ IdleSync /\ IdleDedup

SpecSem == InitSpecSem /\ [][NextSem]_vars

InitSpecOrch == InitOrch /\ IdleRun /\ IdleFetch /\ IdleLock /\ IdleSem /\ IdleNorm /\ IdleCpe /\ IdleTags /\ IdleVer /\ IdleDate /\ IdleDateTags /\ IdlePkg /\ IdleBest /\ IdleLog /\ IdleSync /\ IdleDedup

SpecOrch == InitSpecOrch /\ [][NextOrch]_vars

InitSpecNorm == InitNorm /\ IdleRun /\ IdleFetch /\ IdleLock /\ IdleSem /\ IdleOrch /\ IdleCpe /\ IdleTags /\ IdleVer /\ IdleDate /\ IdleDateTags /\ IdlePkg /\ IdleBest /\ IdleLog /\ IdleSync /\ IdleDedup

SpecNorm == InitSpecNorm /\ [][NextNorm]_vars

InitSpecCpe == InitCpe /\ IdleRun /\ IdleFetch /\ IdleLock /\ IdleSem /\ IdleOrch /\ IdleNorm /\ IdleTags /\ IdleVer /\ IdleDate /\ IdleDateTags /\ IdlePkg /\ IdleBest /\ IdleLog /\ IdleSync /\ IdleDedup

SpecCpe == InitSpecCpe /\ [][NextCpe]_vars

InitSpecTags == InitTags /\ IdleRun /\ IdleFetch /\ IdleLock /\ IdleSem /\ IdleOrch /\ IdleNorm /\ IdleCpe /\ IdleVer /\ IdleDate /\ IdleDateTags /\ IdlePkg /\ IdleBest /\ IdleLog /\ IdleSync /\ IdleDedup

SpecTags == InitSpecTags /\ [][NextTags]_vars

InitSpecVer == InitVer /\ IdleRun /\ IdleFetch /\ IdleLock /\ IdleSem /\ IdleOrch /\ IdleNorm /\ IdleCpe /\ IdleTags /\ IdleDate /\ IdleDateTags /\ IdlePkg /\ IdleBest /\ IdleLog /\ IdleSync /\ IdleDedup

SpecVer == InitSpecVer /\ [][NextVer]_vars

InitSpecDate == InitDate /\ IdleRun /\ IdleFetch /\ IdleLock /\ IdleSem /\ IdleOrch /\ IdleNorm /\ IdleCpe /\ IdleTags /\ IdleVer /\ IdleDateTags /\ IdlePkg /\ IdleBest /\ IdleLog /\ IdleSync /\ IdleDedup

SpecDate == InitSpecDate /\ [][NextDate]_vars

InitSpecDateTags == InitDateTags /\ IdleRun /\ IdleFetch /\ IdleLock /\ IdleSem /\ IdleOrch /\ IdleNorm /\ IdleCpe /\ IdleTags /\ IdleVer /\ IdleDate /\ IdlePkg /\ IdleBest /\ IdleLog /\ IdleSync /\ IdleDedup

SpecDateTags == InitSpecDateTags /\ [][NextDateTags]_vars

InitSpecPkg == InitPkg /\ IdleRun /\ IdleFetch /\ IdleLock /\ IdleSem /\ IdleOrch /\ IdleNorm /\ IdleCpe /\ IdleTags /\ IdleVer /\ IdleDate /\ IdleDateTags /\ IdleBest /\ IdleLog /\ IdleSync /\ IdleDedup

SpecPkg == InitSpecPkg /\ [][NextPkg]_vars

InitSpecBest == InitBest /\ IdleRun /\ IdleFetch /\ IdleLock /\ IdleSem /\ IdleOrch /\ IdleNorm /\ IdleCpe /\ IdleTags /\ IdleVer /\ IdleDate /\ IdleDateTags /\ IdlePkg /\ IdleLog /\ IdleSync /\ IdleDedup

SpecBest == InitSpecBest /\ [][NextBest]_vars

InitSpecLog == InitLog /\ IdleRun /\ IdleFetch /\ IdleLock /\ IdleSem /\ IdleOrch /\ IdleNorm /\ IdleCpe /\ IdleTags /\ IdleVer /\ IdleDate /\ IdleDateTags /\ IdlePkg /\ IdleBest /\ IdleSync /\ IdleDedup

SpecLog == InitSpecLog /\ [][NextLog]_vars

InitSpecDedup == InitDedup /\ IdleRun /\ IdleFetch /\ IdleLock /\ IdleSem /\ IdleOrch /\ IdleNorm /\ IdleCpe /\ IdleTags /\ IdleVer /\ IdleDate /\ IdleDateTags /\ IdlePkg /\ IdleBest /\ IdleLog /\ IdleSync

SpecDedup == InitSpecDedup /\ [][NextDedup]_vars

InitSpecSync == InitSync /\ IdleRun /\ IdleFetch /\ IdleLock /\ IdleSem /\ IdleOrch /\ IdleNorm /\ IdleCpe /\ IdleTags /\ IdleVer /\ IdleDate /\ IdleDateTags /\ IdlePkg /\ IdleBest /\ IdleLog /\ IdleDedup

\* every request and every job in a thread ends, and the event loop runs
\* every task that can go on (asyncio wakes the waiters of a lock and of a
\* semaphore in the order they came)
SpecSync ==
    InitSpecSync /\ [][NextSync]_vars /\ \A t \in SyncTasks : WF_vars(SyncStep(t))

(***************************************************************************)
(* Properties of the run                                                   *)
(***************************************************************************)
\* the exception that ended the resolution of f is an unclassified one
Unclassified(f) ==
    \/ task[f] = "raised"
    \/ task[f] = "returned" /\ error[f] \notin LinuxRecognitionErrors \cup {None}

\* the record of f is among those handed to the flush of its batch
InFlush(f) ==
    /\ flushArgs[SegmentIndex(f)] # {}
    /\ f \in flushArgs[SegmentIndex(f)]

\* C1: batch isolation.  Once the run has ended, for every fingerprint whose
\* resolution raised an unclassified exception at any point (the constructor
\* of the recognizer included), every other fingerprint of its batch has run
\* to its end, its result, if any, is part of the batch's flush, and the run
\* has gone on to every later batch.
C1_BatchIsolation ==
    \A f \in Fingerprints :
        (pc = "ended" /\ Unclassified(f)) =>
            /\ \A g \in batched(SegmentIndex(f)) \ {f} :
                   /\ task[g] = "returned"
                   /\ (outcome[g] # None => InFlush(g))
            /\ \A j \in Segments : \A g \in batched(j) : task[g] # "none"

\* C2: a flush that ends with an error, whatever the error, loses the
\* results of its batch without retry and does not stop the run: once the run
\* has ended, every later batch has been resolved and, when it has results,
\* its own flush has been attempted.
C2_FlushFailureDoesNotStopRun ==
    \A k \in Segments :
        (pc = "ended" /\ flushResult[k] \notin {None, "ok"}) =>
            /\ flushArgs[k] \cap persisted = {}
            /\ \A j \in Segments : j > k =>
                   /\ \A g \in batched(j) : task[g] # "none"
                   /\ ((\A g \in batched(j) : task[g] = "returned") /\ results(j) # {}
                          => flushResult[j] # None)

\* C7: the tasks of a batch exist together, and the successful results of a
\* batch are handed to storage in one flush that starts only when every task
\* of the batch has completed: nothing of a batch is handed over or written
\* while a task of it has not ended, and what is handed over is all of the
\* batch's results at once.
C7_FlushAfterAllTasks ==
    /\ \A f \in Fingerprints :
           task[f] # "none" => \A g \in batched(SegmentIndex(f)) : task[g] # "none"
    /\ \A k \in Segments :
           flushArgs[k] # {} =>
               /\ \A g \in batched(k) : task[g] = "returned"
               /\ flushArgs[k] = {g \in batched(k) : outcome[g] # None}
    /\ \A f \in persisted :
           /\ \A g \in batched(SegmentIndex(f)) : task[g] = "returned"
           /\ {g \in batched(SegmentIndex(f)) : outcome[g] # None} \subseteq persisted

\* C7 witness: a batch whose tasks ran concurrently (both were under way at
\* once is implied by the creation of all before gather) and whose two
\* results were written by one flush
C7_Witness ==
    \E k \in Segments :
        /\ flushResult[k] = "ok"
        /\ Cardinality(flushArgs[k]) >= 2
        /\ flushArgs[k] \subseteq persisted

\* C8: a fingerprint whose resolution ended with an error at any step, or
\* without a software name, gives None: no record of it, not even a partly
\* resolved one, is handed to a flush or written; its task returns to gather
\* instead of raising, so the batch is not aborted by it.
C8_NoResultOnErrorOrNoName ==
    /\ \A f \in Fingerprints :
           (task[f] = "returned" /\ (error[f] # None \/ ~software[f])) =>
               /\ outcome[f] = None
               /\ ~InFlush(f)
               /\ f \notin persisted
    /\ \A f \in Fingerprints :
           (error[f] # None \/ (task[f] = "returned" /\ ~software[f])) =>
               task[f] # "raised"
    /\ \A f \in Fingerprints :
           (pc = "flush" /\ f \in batched(segment) /\ (error[f] # None \/ ~software[f])) =>
               f \notin flushArgs[segment]

\* C8 witness: a fingerprint that failed with an unclassified exception after
\* its software name had been set, in a batch whose other result was written
C8_Witness ==
    \E f \in Fingerprints :
        /\ task[f] = "returned"
        /\ software[f]
        /\ error[f] = "KeyError"
        /\ flushResult[SegmentIndex(f)] = "ok"
        /\ \E g \in batched(SegmentIndex(f)) \ {f} : g \in persisted

\* C10: when prepare_context fails at one of its steps, every pool and every
\* session constructed up to then has been closed when the error reaches the
\* caller.
C10_CleanupOnContextFailure ==
    (pc = "ended" /\ raisedIn = "prepare_context") =>
        /\ poolOpen = {}
        /\ sessionOpen = {}

(***************************************************************************)
(* Properties of a fetch                                                   *)
(***************************************************************************)
\* the fetch failed: an exception was raised inside the try of _perform_fetch,
\* or the response came with a status that is not 2xx
FetchFailed ==
    \/ fetch_exc # None
    \/ got_status # 0 /\ got_status \notin 200..299

WantedUnderLock(t) ==
    IF req[t] # None THEN None
    ELSE IF lpc[t] \in {"get_homepage", "get_package_info"} THEN "UDD"
    ELSE IF lpc[t] \in {"load_project_info", "fetch_tag_with_version"} THEN mode[t]
    ELSE None

\* task u cannot take its next step: the lock it needs is held by task s
DelayedBy(u, s) ==
    /\ s # u
    /\ WantedUnderLock(u) # None
    /\ lockOwner[lock_of(WantedUnderLock(u))] = s

\* C4: for each of GitHub, GitLab and UDD, at most one request to it is in
\* flight at any moment, over all tasks and whichever call issues it.
C4_OneRequestPerPlatform ==
    \A p \in Platforms : Cardinality({t \in LockTasks : req[t] = p}) <= 1

\* C5 as claimed: a request that never returns holds back no other task,
\* tasks that talk to the same platform included.
C5_StuckFetchDelaysNoOtherTask ==
    \A u \in LockTasks : \A s \in stuck : ~DelayedBy(u, s)

\* C5 as amended: a task that has not completed and whose own request is not
\* stuck is held back by another task only while that task has a request
\* in flight to the very platform it wants to ask next; otherwise it is
\* awaiting its own request or its next step can be taken now.
C5_StuckFetchDelaysOnlySamePlatform ==
    \A u \in LockTasks :
        (lpc[u] # "done" /\ u \notin stuck) =>
            /\ \A s \in LockTasks :
                   DelayedBy(u, s) => req[s] = WantedUnderLock(u)
            /\ (\A s \in LockTasks : ~DelayedBy(u, s)) =>
                   (req[u] # None \/ ENABLED TaskStep(u))

\* C5 witness: the GitHub request of s is stuck under github_lock, and
\* another task has gone through GitLab, tags included, to its end after
\* that request got stuck
C5_Witness ==
    \E s, w \in LockTasks :
        /\ s \in stuck
        /\ req[s] = "GitHub"
        /\ lockOwner["github_lock"] = s
        /\ w # s
        /\ mode[w] = "GitLab"
        /\ page[w] >= 1
        /\ lpc[w] = "done"
        /\ since_stall[w]

(***************************************************************************)
(* Properties of the offloaded jobs                                        *)
(***************************************************************************)
\* the tasks whose offloaded job is running in a thread
InThread ==
    {t \in Offloaders :
        spc[t] \in {"parse_response in thread", "establish_cpe_identity in thread"}}

\* C6: every offloaded job runs under the one semaphore of the run, so the
\* jobs running at once, over all tasks and call sites, are the slots taken
\* from that semaphore and never more than its limit.
C6_OffloadedJobsUnderGlobalSemaphore ==
    /\ Cardinality(InThread) = semaphore_value - semaphore
    /\ Cardinality(InThread) <= semaphore_value

(***************************************************************************)
(* Properties of the decision tree                                         *)
(***************************************************************************)
\* C9: a lookup that fails with a transport or persistence error, or a
\* project that is not confirmed, is followed by the next fallback: the
\* resolution of the fingerprint ends without a result in such a lookup
\* only when it was the last one of the chain, the universal class.
C9_FallbackAfterAdapterFailure ==
    (/\ opc = "ended"
     /\ returned = None
     /\ ended_in = failed_step
     /\ failed_kind \in {"transport", "persistence", "unconfirmed"})
        => failed_step = "universal class"

\* C11: when a run that has built its context ends, normally or with an
\* exception, every session and every pool of the context has been closed,
\* apart from those whose own close() raised: the failure to close one does
\* not leave another one open.
C11_TeardownClosesEverything ==
    (pc = "ended" /\ raisedIn \notin {"is_initialized", "prepare_context"}) =>
        /\ sessionOpen \subseteq closeFailed
        /\ poolOpen \subseteq closeFailed

\* C12: a run of a project that has not been initialized creates no pool and
\* no session, normalizes no fingerprint and starts no recognition task, and
\* once the flag has been read it ends with ProjectNotInitializedError.
C12_NotInitializedStopsBeforeContext ==
    ~project_initialized =>
        /\ nextDb = 1 /\ poolOpen = {} /\ sessionOpen = {}
        /\ ~normalized
        /\ \A f \in Fingerprints : task[f] = "none" /\ outcome[f] = None
        /\ (pc = "ended" /\ raised # "OSError") =>
                (raised = "ProjectNotInitializedError" /\ raisedIn = "is_initialized")

C12_Witness ==
    /\ pc = "ended"
    /\ ~project_initialized
    /\ raised = "ProjectNotInitializedError"

(***************************************************************************)
(* Properties of the normalization                                         *)
(***************************************************************************)

\* C13: normalization is idempotent on the version: normalizing the version
\* of a normalized fingerprint again gives that version, whatever the
\* number of its components.
C13_NormalizationIdempotent ==
    npc = "twice" => version = version_once

\* the resolutions in flight: the tasks created and not yet ended
in_flight == {f \in Fingerprints : task[f] \in {"created", "constructed"}}

\* C26: the batches are resolved one after another: a task of a batch is
\* started only when every task of the batch before has ended and the flush
\* of that batch, if it had results, has ended; hence at most segment_length
\* resolutions are in flight at any moment.
C26_BatchesOneAfterAnother ==
    /\ Cardinality(in_flight) <= segment_length
    /\ \A f \in Fingerprints :
         (task[f] # "none" /\ SegmentIndex(f) > 1) =>
            /\ \A g \in batched(SegmentIndex(f) - 1) : task[g] \in {"returned", "raised"}
            /\ results(SegmentIndex(f) - 1) # {} => flushResult[SegmentIndex(f) - 1] # None

C26_Witness ==
    /\ segment = 2
    /\ in_flight = batched(2)
    /\ Cardinality(in_flight) = segment_length
    /\ flushResult[1] = "DatabaseError"

(***************************************************************************)
(* Properties of the CPE identity                                          *)
(***************************************************************************)

\* C14: when some candidate's publisher is a known publisher name, the
\* candidate taken is one whose publisher is a known publisher name, also
\* when a candidate matching by version prefix only stands before it.
C14_PublisherMatchBeforeVersionPrefix ==
    (cpc = "done" /\ \E i \in 1..Len(records) : publisher_matches(records[i])) =>
        (matched # 0 /\ publisher_matches(records[matched]))

\* the version of the candidate, split into tokens, is a prefix of the tokens
\* of the resolved version
candidate_version_is_prefix(record) ==
    LET version_parts == findall_parts(resolved_version)
        cpe_version_parts == findall_parts(record[2])
    IN  /\ version_parts # <<>>
        /\ cpe_version_parts # <<>>
        /\ Len(cpe_version_parts) <= Len(version_parts)
        /\ cpe_version_parts = SubSeq(version_parts, 1, Len(cpe_version_parts))

\* C22: the candidate taken is the first in list order that matches by
\* publisher or whose version tokens are a prefix of the tokens of the
\* resolved version; no candidate is taken when there is none such (so a
\* candidate whose version has more tokens than the resolved version is taken
\* only for its publisher).
C22_CandidateVersionIsPrefixOfResolved ==
    cpc = "done" =>
        LET wins(i) == publisher_matches(records[i]) \/ candidate_version_is_prefix(records[i])
        IN  IF \E i \in 1..Len(records) : wins(i)
            THEN /\ matched # 0
                 /\ wins(matched)
                 /\ \A j \in 1..(matched - 1) : ~wins(j)
            ELSE matched = 0

(***************************************************************************)
(* Properties of the tag search                                            *)
(***************************************************************************)

\* the tags _get_best_match chose among: the general matches of the page
\* the search ended on
Candidates == {i \in page_of(page_number) : tags[i][1] = "general"}

CandidateTails == {tags[i][2] : i \in Candidates}

ChosenByTieBreak ==
    tpc = "done" /\ tag_with_version # 0 /\ tags[tag_with_version][1] = "general"

\* C15: the tag search returns a partial match only when no tag of the whole
\* list matches exactly, whatever pages the exact and the partial matches
\* are on.
C15_ExactMatchWinsOnAnyPage ==
    ChosenByTieBreak => \A i \in 1..Len(tags) : tags[i][1] # "exact"

NumPages == (Len(tags) + per_page - 1) \div per_page

\* C28: the tag search of a project with finitely many tags makes at most
\* one request per page of tags plus one, whatever the answers (a page, an
\* empty page, a payload that is no list, an error), each turn of the loop
\* ends the search or makes the next request, and the lock of the platform
\* is held only while a request is under way, not between two requests nor
\* after the search.
C28_TagSearchTerminates ==
    /\ requests <= NumPages + 1
    /\ requests = (IF tpc = "page" THEN page_number - 1 ELSE page_number)
    /\ tags_lock <=> tpc = "response"

C28_Witness ==
    /\ tpc = "done"
    /\ tag_with_version = 0
    /\ NumPages = 2
    /\ requests = NumPages + 1
    /\ ~tags_lock

(***************************************************************************)
(* Properties of the version patterns                                      *)
(***************************************************************************)

\* C17: the exact pattern of version "4.4.0" matches the names "v4.4" and
\* "4.4.0", and neither "4.40" nor "4.4.1".
C17_ExactPatternOf440 ==
    (vpc = "searched" /\ version_name = <<"4", ".", "4", ".", "0">>) =>
        /\ release_name \in {<<"v", "4", ".", "4">>, <<"4", ".", "4", ".", "0">>} => exact_match
        /\ release_name \in {<<"4", ".", "4", "0">>, <<"4", ".", "4", ".", "1">>} => ~exact_match

C17_Witness ==
    /\ vpc = "searched"
    /\ version_name = <<"4", ".", "4", ".", "0">>
    /\ release_name = <<"4", ".", "4", "0">>
    /\ general_match
    /\ ~exact_match

\* C18: the exact patterns of the versions "2.0.0" and "2" match the same
\* names: a name matched by the pattern of one is matched by that of the
\* other.
C18_TrailingZerosMatchSameNames ==
    (vpc = "searched" /\ version_name \in {<<"2", ".", "0", ".", "0">>, <<"2">>}) =>
        /\ exact_match = exact_search(release_name, <<"2", ".", "0", ".", "0">>)
        /\ exact_match = exact_search(release_name, <<"2">>)

(***************************************************************************)
(* Properties of the date parser                                           *)
(***************************************************************************)

\* C19: parse_date raises no exception, and the date it returns, if any,
\* has a month of 1..12 and a day not above the days of that month.
C19_ValidDateOrNone ==
    dpc = "done" =>
        /\ date_exception = None
        /\ date # <<>> =>
             (date[2] \in 1..12 /\ date[3] <= monthrange(date[1], date[2]))

(***************************************************************************)
(* Properties of the tags of a date version                                *)
(***************************************************************************)

\* the tags that pass the pre-filter and the date comparison
DateCandidates ==
    {i \in 1..Len(date_tags) :
       date_tags[i].in_name /\ is_close_to(date_tags[i].date, date_in_version)}

\* the class of a candidate: 1 fully matching and suffix consistent,
\* 2 fully matching, 3 suffix consistent, 4 any
DateClass(i) ==
    LET full == date_tags[i].date = date_in_version
        consistent == is_version_suffix_consistent(version_suffix, date_tags[i].tail)
    IN  IF full /\ consistent THEN 1 ELSE IF full THEN 2 ELSE IF consistent THEN 3 ELSE 4

\* C20: among the candidates the tag returned is of the highest class
\* present: fully matching and suffix consistent, then fully matching, then
\* suffix consistent, then any; None is returned only without a candidate.
C20_DateTagPriorityChain ==
    gpc = "done" =>
        IF DateCandidates = {} THEN date_tag = 0
        ELSE /\ date_tag \in DateCandidates
             /\ \A i \in DateCandidates : DateClass(date_tag) <= DateClass(i)

C20_Witness ==
    /\ gpc = "done"
    /\ date_tag > 1
    /\ 1 \in DateCandidates
    /\ DateClass(1) = 4
    /\ DateClass(date_tag) = 3


(***************************************************************************)
(* Properties of the package adapters                                      *)
(***************************************************************************)

\* C21: every adapter attempts the Universal lookup first: a lookup in the
\* distro's own sources is started, and initialize() ends, only after the
\* Universal lookup of the adapter has finished.
C21_UniversalLookupFirst ==
    (distro_lookups # {} \/ kpc = "done") => universal_attempt = "finished"


(***************************************************************************)
(* Properties of the tie-break among partial matches                       *)
(***************************************************************************)

\* the tail holds no pre-release marker and no digit
pure_stable(tail) == stable(tail) /\ \A i \in 1..Len(tail) : ~digit(tail[i])

\* C23: whenever a candidate whose tail holds no pre-release marker and no
\* digit is in the list, the item returned is such a candidate, also when
\* other candidates have numeric tails.
C23_PureStablePreferred ==
    (/\ bpc = "done"
     /\ best_match_raised = None
     /\ \E i \in 1..Len(matching_items) : pure_stable(matching_items[i])) =>
        (best_match # 0 /\ pure_stable(matching_items[best_match]))

\* the number of a tail read as a dotted number: the whole numbers of its
\* runs of digits, from the first digit of the tail on
dotted_number(tail) ==
    LET start == CHOOSE i \in 1..Len(tail) :
                   digit(tail[i]) /\ \A j \in 1..(i - 1) : ~digit(tail[j])
        groups == number_groups(SubSeq(tail, start, Len(tail)))
    IN  [k \in 1..Len(groups) |-> int(groups[k])]

\* a before b, component by component
RECURSIVE dotted_less(_, _)
dotted_less(a, b) ==
    IF a = <<>> THEN b # <<>>
    ELSE IF b = <<>> THEN FALSE
    ELSE IF Head(a) # Head(b) THEN Head(a) < Head(b)
    ELSE dotted_less(Tail(a), Tail(b))

\* C24: among candidates with numeric tails (stable, with digits) the item
\* returned is one of the smallest tail, the tails read as dotted numbers
\* and compared component by component: ".2.9" before ".2.10", "2" before
\* "10".
C24_SmallestDottedTail ==
    (/\ bpc = "done"
     /\ best_match_raised = None
     /\ digital_measured(matching_items) = 1..Len(matching_items)) =>
        /\ best_match # 0
        /\ \A i \in 1..Len(matching_items) :
             ~dotted_less(dotted_number(matching_items[i]),
                          dotted_number(matching_items[best_match]))

\* C29: for every non-empty list of partial matches _get_best_match returns
\* one member of the list and raises no exception.
C29_TieBreakTotal ==
    bpc = "done" =>
        (best_match_raised = None /\ best_match \in 1..Len(matching_items))


(***************************************************************************)
(* Properties of the release date of a changelog                           *)
(***************************************************************************)

\* C25: with a year-less date on the matched line, the release date has the
\* year of the nearest following line that holds a year, the release is
\* undated when that date is not a day of the calendar or when no line
\* holds a year, and the scan ends without an error, however many later
\* lines hold a year.
C25_YearOfNearestFollowingLine ==
    hpc = "done" =>
        /\ changelog_raised = None
        /\ LET with_year == {i \in 1..Len(following_lines) : following_lines[i] # 0}
               nearest == CHOOSE i \in with_year : \A j \in with_year : i <= j
               completed == <<following_lines[nearest], no_year_date[1], no_year_date[2]>>
           IN  IF with_year = {} THEN iso_date = <<>>
               ELSE IF completed[3] > monthrange(completed[1], completed[2])
               THEN iso_date = <<>>
               ELSE iso_date = completed


(***************************************************************************)
(* Properties of the locks and the semaphore together                      *)
(***************************************************************************)

\* a lock is held only by a task inside the block of that lock, and the
\* slots taken are those of the jobs in threads
held_inside_blocks ==
    /\ \A l \in Locks :
         lock_holder[l] # 0 =>
            /\ lock_for(lock_holder[l]) = l
            /\ phase[lock_holder[l]] \in {"request", "slot", "thread"}
            /\ section[lock_holder[l]] \notin {"fetch_from_changelog", "done"}
    /\ free_slots = SyncSlots - Cardinality({t \in SyncTasks : phase[t] = "thread"})

\* no task waits for a lock it holds
no_wait_for_own_lock ==
    \A t \in SyncTasks : phase[t] = "lock" => lock_holder[lock_for(t)] # t

\* C27: every lock and slot taken is given back on every way out of its
\* block, no task waits for a lock it holds, and, every request and job in
\* a thread ending, every task gets what it waits for and ends.
C27_NoDeadlock ==
    /\ [](held_inside_blocks /\ no_wait_for_own_lock)
    /\ <>[](\A t \in SyncTasks : section[t] = "done")

\* a task holds udd_lock and, inside it, the last slot of the semaphore,
\* while another task waits for udd_lock and a third party of the semaphore
\* waits for a slot
C27_Witness ==
    \E t, u \in SyncTasks :
       /\ lock_holder["udd_lock"] = t
       /\ phase[t] = "thread"
       /\ free_slots = 0
       /\ waits(u)


(***************************************************************************)
(* Properties of the deduplication of normalized fingerprints              *)
(***************************************************************************)

\* C30: the set of normalized fingerprints of a list, derived fields
\* included, is that of every permutation of the list.
C30_DedupOrderIndependent ==
    upc = "done" => unique = unique_permuted

====
